---------------------------- MODULE Spec2Model ----------------------------
(***************************************************************************)
(* EMVO merchant QR payload codec of native-bridge-console                 *)
(* (src/src/components/ScannerPage.tsx, component EmvoQrGenerator):        *)
(* the TLV encoder generateQrString with its CRC-16 checksum, and the      *)
(* decoder parseQrString with parseTLV / parseSubTLVs.                     *)
(*                                                                         *)
(* With it, the parts of the console around the codec: closeModule and     *)
(* detectBridgeType (bridgeUtils), the message history (MessageContext),   *)
(* NativeBarcodeScanner, and ScannerPage with its permission check and     *)
(* its scan history.                                                       *)
(*                                                                         *)
(* A JavaScript string is modelled as the sequence of its UTF-16 code      *)
(* units (integers), so that .length, substring, the UTF-8 encoder and     *)
(* the decimal / hexadecimal conversions are computed as the code          *)
(* computes them.                                                          *)
(***************************************************************************)
EXTENDS Integers, Sequences, FiniteSets, TLC

VARIABLES
    \* ---- EmvoQrGenerator component state (useState hooks)
    formData,         \* EmvoQrData
    qrString,         \* the encoded string shown / rendered
    tlvs,             \* the TLV structure published next to qrString
    inputQrString,    \* text of the "Parse QR String" input
    \* ---- parseQrString in progress (locals of the running handler)
    pc,               \* "mount" | "idle" | "loop" | "sub" | "update"
    qrStringToParse,  \* argument of parseQrString
    parsedData,       \* Partial<EmvoQrData> being filled
    index,            \* top-level loop index
    subParsed,        \* the top-level TLV whose value parseSubTLVs walks
    subIndex,         \* parseSubTLVs loop index
    subTlvs,          \* parseSubTLVs result map
    \* ---- calculateCRC16 run on its own (locals of the function)
    crcPc,            \* "off" | "start" | "outer" | "inner" | "return" | "done"
    crcData,          \* argument string
    crcBytes,         \* the UTF-8 bytes of the argument
    crcI,             \* outer loop counter i
    crcJ,             \* inner loop counter j
    crcAcc,           \* the accumulator crc
    crcOut,           \* returned string
    \* ---- the page the code runs in (src/utils/bridgeUtils)
    window,           \* the bridge objects the host put on window
    sessionStorage,   \* the items of sessionStorage (key -> string)
    location,         \* [href |-> argument of window.location.replace], or Null
    posted,           \* the postMessage calls made so far: bridge and text
    closeData,        \* argument of the last closeModule call, or Null
    closeResult,      \* what that call returned, or the exception it threw
    \* ---- MessageProvider (src/context/MessageContext.tsx)
    messageHistory,   \* MessageHistoryItem[]
    historyCall,      \* the last call made to the provider: name and arguments
    now,              \* the clock new Date() reads
    \* ---- NativeBarcodeScanner component: state hooks and refs
    isScanning,       \* useState(false)
    scanResult,       \* ScanResult, or Null
    error,            \* the error text, "" for null
    processedFrames,  \* ProcessedFrame[]
    frameCounter,     \* useState(0)
    streamRef,        \* the session whose stream streamRef.current is, 0 for null
    srcObject,        \* the session whose stream the video shows, 0 for null
    detectorRef,      \* detectorRef.current is a detector
    animationRef,     \* the session whose frame request animationRef.current is, 0 for null
    isScanningRef,    \* isScanningRef.current
    \* ---- NativeBarcodeScanner: calls in flight, one session per startScanning call
    sessions,         \* per session, the frameCounter its closures were created with
    userMedia,        \* sessions whose getUserMedia call is pending
    onloadedmetadata, \* the session whose handler the video has, 0 for none
    metadataDue,      \* the video has still to fire loadedmetadata for its source
    detecting,        \* sessions whose detect() call is pending
    scheduled,        \* sessions whose requestAnimationFrame callback is pending
    \* ---- ScannerPage component
    pagePc,           \* "unmounted" | "collecting" (collectDebugInfo pending) | "ready"
    debugInfo,        \* DebugInfo, or Null
    permissionGranted, \* "null" | "true" | "false"
    permissionChecked,
    onCameraPermissionResult, \* window.onCameraPermissionResult is set
    pageScanResult,   \* scanResult of ScannerPage, or Null
    pageIsScanning,   \* isScanning of ScannerPage
    pageError,        \* error of ScannerPage, "" for null
    scanHistory,      \* ScanResult[]
    activeTab,        \* "camera" | "upload"
    uploads           \* per file chosen, how far its upload is

genVars   == <<formData, qrString, tlvs, inputQrString>>
parseVars == <<pc, qrStringToParse, parsedData, index, subParsed, subIndex, subTlvs>>
crcVars   == <<crcPc, crcData, crcBytes, crcI, crcJ, crcAcc, crcOut>>
codecVars == <<genVars, parseVars, crcVars>>
bridgeVars == <<window, sessionStorage, location, posted, closeData, closeResult>>
messageVars == <<messageHistory, historyCall, now>>
scannerVars == <<isScanning, scanResult, error, processedFrames, frameCounter, streamRef,
                 srcObject, detectorRef, animationRef, isScanningRef, sessions, userMedia,
                 onloadedmetadata, metadataDue, detecting, scheduled>>
pageVars  == <<pagePc, debugInfo, permissionGranted, permissionChecked,
               onCameraPermissionResult, pageScanResult, pageIsScanning, pageError,
               scanHistory, activeTab, uploads>>
appVars   == <<bridgeVars, messageVars, scannerVars, pageVars>>
vars      == <<codecVars, appVars>>

-----------------------------------------------------------------------------
(***************************************************************************)
(* Strings as code-unit sequences                                          *)
(***************************************************************************)

\* Code unit of a one-character literal: the ASCII digits, letters, and the
\* punctuation the literals of this module use.
Digits     == "0123456789"
UpperCase  == "ABCDEFGHIJKLMNOPQRSTUVWXYZ"
LowerCase  == "abcdefghijklmnopqrstuvwxyz"
Punctuation == " +-."
PunctuationCodes == <<32, 43, 45, 46>>

PosIn(c, lit) == CHOOSE i \in 1..Len(lit) : SubSeq(lit, i, i) = c
Occurs(c, lit) == \E i \in 1..Len(lit) : SubSeq(lit, i, i) = c

Ord(c) ==
    IF Occurs(c, Digits) THEN 47 + PosIn(c, Digits)
    ELSE IF Occurs(c, UpperCase) THEN 64 + PosIn(c, UpperCase)
    ELSE IF Occurs(c, LowerCase) THEN 96 + PosIn(c, LowerCase)
    ELSE PunctuationCodes[PosIn(c, Punctuation)]

\* A literal of the source as a code-unit sequence.
S(lit) == [i \in 1..Len(lit) |-> Ord(SubSeq(lit, i, i))]

\* n copies of the character c.
Rep(c, n) == [i \in 1..n |-> c]

Max(a, b) == IF a >= b THEN a ELSE b
Min(a, b) == IF a <= b THEN a ELSE b

\* String.prototype.substring(a, b) with 0-based indices: both arguments are
\* clamped to [0, length] and swapped when a > b.
Substring(s, a, b) ==
    LET ca == Min(Max(a, 0), Len(s))
        cb == Min(Max(b, 0), Len(s))
        lo == Min(ca, cb)
        hi == Max(ca, cb)
    IN  SubSeq(s, lo + 1, hi)

\* The white space that trim() and parseInt skip (the code units used here).
WhiteSpace == {9, 10, 11, 12, 13, 32, 160}

\* str.trim() is the empty string.
IsBlank(s) == \A i \in 1..Len(s) : s[i] \in WhiteSpace

IsDigit(c) == c >= 48 /\ c <= 57

\* Number.prototype.toString(radix) of a non-negative integer.
RECURSIVE ToStringRadix(_, _)
ToStringRadix(n, radix) ==
    LET d  == n % radix
        ch == IF d < 10 THEN 48 + d ELSE 97 + (d - 10)
    IN  IF n < radix THEN <<ch>> ELSE Append(ToStringRadix(n \div radix, radix), ch)

\* String.prototype.toUpperCase() on the ASCII letters.
ToUpperCase(s) == [i \in 1..Len(s) |-> IF s[i] >= 97 /\ s[i] <= 122 THEN s[i] - 32 ELSE s[i]]

\* String.prototype.padStart(width, ch).
PadStart(s, width, ch) == IF Len(s) >= width THEN s ELSE Rep(ch, width - Len(s)) \o s

\* parseInt(str, 10): leading white space is skipped, an optional sign is
\* read, then the longest prefix of decimal digits; NaN when there is none.
RECURSIVE DigitsValue(_, _, _)
DigitsValue(s, i, acc) ==
    IF i <= Len(s) /\ IsDigit(s[i]) THEN DigitsValue(s, i + 1, 10 * acc + (s[i] - 48)) ELSE acc

RECURSIVE SkipWhite(_, _)
SkipWhite(s, i) == IF i <= Len(s) /\ s[i] \in WhiteSpace THEN SkipWhite(s, i + 1) ELSE i

ParseInt(s) ==
    LET i    == SkipWhite(s, 1)
        sign == IF i <= Len(s) /\ s[i] = 45 THEN -1 ELSE 1
        j    == IF i <= Len(s) /\ s[i] \in {43, 45} THEN i + 1 ELSE i
    IN  IF j <= Len(s) /\ IsDigit(s[j])
        THEN [nan |-> FALSE, val |-> sign * DigitsValue(s, j, 0)]
        ELSE [nan |-> TRUE, val |-> 0]

\* Bitwise operators on non-negative integers.  Exclusive or is computed
\* four bits at a time from the table of the one-digit (hexadecimal) cases.
RECURSIVE XorBits(_, _)
XorBits(a, b) ==
    IF a = 0 THEN b
    ELSE IF b = 0 THEN a
    ELSE ((a + b) % 2) + 2 * XorBits(a \div 2, b \div 2)

XorTable == [a \in 0..15 |-> [b \in 0..15 |-> XorBits(a, b)]]

RECURSIVE Xor(_, _)
Xor(a, b) ==
    IF a = 0 THEN b
    ELSE IF b = 0 THEN a
    ELSE XorTable[a % 16][b % 16] + 16 * Xor(a \div 16, b \div 16)

\* a & pow for pow a power of two: the bit of that weight, left in place.
BitAndPow2(a, pow) == ((a \div pow) % 2) * pow

\* a & (pow - 1) for pow a power of two: the bits below that weight.
BitAndLow(a, pow) == a % pow

\* The UTF-8 encoder (TextEncoder): a high surrogate followed by a low one is
\* one code point of 4 bytes; a lone surrogate is replaced by U+FFFD.
IsHighSurrogate(c) == c >= 55296 /\ c <= 56319
IsLowSurrogate(c)  == c >= 56320 /\ c <= 57343

Utf8CodePoint(cp) ==
    IF cp < 128 THEN <<cp>>
    ELSE IF cp < 2048 THEN <<192 + (cp \div 64), 128 + (cp % 64)>>
    ELSE IF cp < 65536
         THEN <<224 + (cp \div 4096), 128 + ((cp \div 64) % 64), 128 + (cp % 64)>>
    ELSE <<240 + (cp \div 262144), 128 + ((cp \div 4096) % 64),
           128 + ((cp \div 64) % 64), 128 + (cp % 64)>>

\* The bytes the code unit at position i gives: a low surrogate right after
\* a high one has been encoded with it.
Utf8Unit(s, i) ==
    IF IsHighSurrogate(s[i]) /\ i < Len(s) /\ IsLowSurrogate(s[i + 1])
    THEN Utf8CodePoint(65536 + (s[i] - 55296) * 1024 + (s[i + 1] - 56320))
    ELSE IF IsLowSurrogate(s[i]) /\ i > 1 /\ IsHighSurrogate(s[i - 1])
    THEN <<>>
    ELSE IF IsHighSurrogate(s[i]) \/ IsLowSurrogate(s[i])
    THEN Utf8CodePoint(65533)
    ELSE Utf8CodePoint(s[i])

\* The bytes of the code units lo+1 .. hi, left to right.
RECURSIVE Utf8Range(_, _, _)
Utf8Range(s, lo, hi) ==
    IF lo >= hi THEN <<>>
    ELSE IF hi = lo + 1 THEN Utf8Unit(s, hi)
    ELSE Utf8Range(s, lo, (lo + hi) \div 2) \o Utf8Range(s, (lo + hi) \div 2, hi)

TextEncode(s) == Utf8Range(s, 0, Len(s))

-----------------------------------------------------------------------------
(***************************************************************************)
(* calculateCRC16                                                          *)
(***************************************************************************)

CrcInit == 65535      \* 0xFFFF
CrcPoly == 4129       \* 0x1021
CrcTopBit == 32768    \* 0x8000
CrcWidth == 65536     \* crc &= 0xFFFF keeps the value below 2^16

\* A variant that leaves the octet in the low half of the accumulator.
CrcXorByteLow(crc, b) == Xor(crc, b)

\* crc ^= bytes[i] << 8
CrcXorByte(crc, b) == Xor(crc, b * 256)

\* A variant without the mask to 16 bits.
CrcShiftUnmasked(crc) ==
    IF BitAndPow2(crc, CrcTopBit) # 0 THEN Xor(crc * 2, CrcPoly) ELSE crc * 2

\* One round of the inner loop: the conditional shift, then crc &= 0xFFFF.
CrcShift(crc) ==
    LET shifted == IF BitAndPow2(crc, CrcTopBit) # 0
                   THEN Xor(crc * 2, CrcPoly)
                   ELSE crc * 2
    IN  BitAndLow(shifted, CrcWidth)

\* The inner loop from round j on.  (The test crc >= 0 is always true: it
\* makes the accumulator be evaluated before the next round.)
RECURSIVE CrcRounds(_, _)
CrcRounds(crc, j) ==
    IF j >= 8 THEN crc
    ELSE IF crc >= 0 THEN CrcRounds(CrcShift(crc), j + 1) ELSE crc

\* One pass of the outer loop for the octet b.
CrcOctet(crc, b) == CrcRounds(CrcXorByte(crc, b), 0)

\* The outer loop over bytes[lo] .. bytes[hi-1] (0-based), left to right,
\* starting from accumulator crc.  The range is halved to keep the
\* evaluation shallow; the octets are still taken in index order.
RECURSIVE CrcBytes(_, _, _, _)
CrcBytes(bytes, lo, hi, crc) ==
    IF lo >= hi THEN crc
    ELSE IF hi = lo + 1 THEN CrcOctet(crc, bytes[hi])
    ELSE LET left == CrcBytes(bytes, lo, (lo + hi) \div 2, crc)
         IN  IF left >= 0 THEN CrcBytes(bytes, (lo + hi) \div 2, hi, left) ELSE left

\* return crc.toString(16).toUpperCase().padStart(4, "0")
CrcToString(crc) == PadStart(ToUpperCase(ToStringRadix(crc, 16)), 4, 48)

calculateCRC16(data) ==
    LET bytes == TextEncode(data)
    IN  CrcToString(CrcBytes(bytes, 0, Len(bytes), CrcInit))

-----------------------------------------------------------------------------
(***************************************************************************)
(* The encoder: createTLV, the two composites, generateQrString            *)
(***************************************************************************)

\* The two-character tags of the wire format.
Tag00 == S("00")
Tag01 == S("01")
Tag02 == S("02")
Tag44 == S("44")
Tag52 == S("52")
Tag53 == S("53")
Tag58 == S("58")
Tag59 == S("59")
Tag60 == S("60")
Tag63 == S("63")
Tag64 == S("64")

\* The tag and length of the checksum field, as appended to the CRC input.
CrcFieldHeader == S("6304")

AdKeys == {"00", "01", "02"}

\* The sub-tag of tag 64 behind each key of additionalData.
AdTag == [k \in AdKeys |-> S(k)]

EmptyAdditionalData == [k \in AdKeys |-> <<>>]

\* The second sub-field of tag 44 when merchantId is empty.
FixedValue == S("410790020044601")

\* useState<EmvoQrData>({...}): the initial record.  The three-character
\* Korean samples are the code units of the source literals.
InitialFormData ==
    [ payloadFormatIndicator  |-> S("01"),
      pointOfInitiationMethod |-> S("11"),
      merchantAccountInfo     |-> S("0018com.konai.konacard0115410790020044601"),
      merchantId              |-> S("com.konai.konacard"),
      merchantCategoryCode    |-> S("3001"),
      transactionCurrency     |-> S("410"),
      countryCode             |-> S("KR"),
      merchantName            |-> S("KONA"),
      merchantCity            |-> S("KONA"),
      additionalData          |-> [k \in AdKeys |->
                                     IF k = "00" THEN S("KO")
                                     ELSE IF k = "01" THEN <<53580, 49828, 53944>>
                                     ELSE <<44221, 44592, 46020>>],
      crc                     |-> S("A26F") ]

\* A variant that counts the encoded bytes instead.
getEmvoLengthBytes(str) == Len(TextEncode(str))

\* return str.length
getEmvoLength(str) == Len(str)

\* A variant that does not pad the length.
formatLengthUnpadded(length) == ToStringRadix(length, 10)

\* return length.toString().padStart(2, "0")
formatLength(length) == PadStart(ToStringRadix(length, 10), 2, 48)

createTLV(tag, value) == tag \o formatLength(getEmvoLength(value)) \o value

\* createTLV("01", merchantId || "410790020044601")
generateMerchantAccountInfo(merchantId) ==
    createTLV(Tag00, merchantId)
        \o createTLV(Tag01, IF merchantId # <<>> THEN merchantId ELSE FixedValue)

\* A variant that emits the sub-tags of tag 64 in the order 00, 02, 01.
generateAdditionalDataTLVSwapped(additionalData) ==
    createTLV(Tag00, additionalData["00"])
        \o createTLV(Tag02, additionalData["02"])
        \o createTLV(Tag01, additionalData["01"])

generateAdditionalDataTLV(additionalData) ==
    createTLV(Tag00, additionalData["00"])
        \o createTLV(Tag01, additionalData["01"])
        \o createTLV(Tag02, additionalData["02"])

\* generateQrString: the string before the checksum field.
QrWithoutCrc(fd) ==
    createTLV(Tag00, fd.payloadFormatIndicator)
        \o createTLV(Tag01, fd.pointOfInitiationMethod)
        \o createTLV(Tag44, generateMerchantAccountInfo(fd.merchantId))
        \o createTLV(Tag52, fd.merchantCategoryCode)
        \o createTLV(Tag53, fd.transactionCurrency)
        \o createTLV(Tag58, fd.countryCode)
        \o createTLV(Tag59, fd.merchantName)
        \o createTLV(Tag60, fd.merchantCity)
        \o createTLV(Tag64, generateAdditionalDataTLV(fd.additionalData))

\* A variant that leaves the header of the checksum field out.
CrcInputBody(qrWithoutCrc) == qrWithoutCrc

\* const crcInput = qrWithoutCrc + "6304"
CrcInput(qrWithoutCrc) == qrWithoutCrc \o CrcFieldHeader

\* const finalQrString = qrWithoutCrc + createTLV("63", calculatedCrc)
FinalQrString(qrWithoutCrc, calculatedCrc) == qrWithoutCrc \o createTLV(Tag63, calculatedCrc)

TlvEntry(tag, value, subTags) ==
    [tag |-> tag, value |-> value, length |-> getEmvoLength(value), subTags |-> subTags]

\* const newTlvs: TLVTag[] = [...]   (an entry without subTags has none: <<>>)
NewTlvs(fd, merchantAccountInfo, additionalDataValue, calculatedCrc) ==
    << TlvEntry(Tag00, fd.payloadFormatIndicator, <<>>),
       TlvEntry(Tag01, fd.pointOfInitiationMethod, <<>>),
       TlvEntry(Tag44, merchantAccountInfo,
                << TlvEntry(Tag00, fd.merchantId, <<>>),
                   TlvEntry(Tag01, FixedValue, <<>>) >>),
       TlvEntry(Tag52, fd.merchantCategoryCode, <<>>),
       TlvEntry(Tag53, fd.transactionCurrency, <<>>),
       TlvEntry(Tag58, fd.countryCode, <<>>),
       TlvEntry(Tag59, fd.merchantName, <<>>),
       TlvEntry(Tag60, fd.merchantCity, <<>>),
       TlvEntry(Tag64, additionalDataValue,
                << TlvEntry(Tag00, fd.additionalData["00"], <<>>),
                   TlvEntry(Tag01, fd.additionalData["01"], <<>>),
                   TlvEntry(Tag02, fd.additionalData["02"], <<>>) >>),
       TlvEntry(Tag63, calculatedCrc, <<>>) >>

\* generateQrString for the record fd: what it passes to setQrString and to
\* setTlvs.
generateQrString(fd) ==
    LET merchantAccountInfo == generateMerchantAccountInfo(fd.merchantId)
        additionalDataValue == generateAdditionalDataTLV(fd.additionalData)
        qrWithoutCrc        == QrWithoutCrc(fd)
        calculatedCrc       == calculateCRC16(CrcInput(qrWithoutCrc))
    IN  [ qrString |-> FinalQrString(qrWithoutCrc, calculatedCrc),
          tlvs     |-> NewTlvs(fd, merchantAccountInfo, additionalDataValue, calculatedCrc) ]

\* A variant in which the effect encodes the record held before the update.
GenerateEffectStale(fd) ==
    LET out == generateQrString(formData)
    IN  /\ qrString' = out.qrString
        /\ tlvs' = out.tlvs

\* useEffect(() => generateQrString(), [generateQrString]): runs after every
\* render in which formData is a new object.
GenerateEffect(fd) ==
    LET out == generateQrString(fd)
    IN  /\ qrString' = out.qrString
        /\ tlvs' = out.tlvs

-----------------------------------------------------------------------------
(***************************************************************************)
(* The decoder: parseTLV, parseSubTLVs, parseQrString                      *)
(***************************************************************************)

Null == [null |-> TRUE]

\* A variant without the two checks against the length of the data.
parseTLVNoBounds(data, startIndex) ==
    LET tag       == Substring(data, startIndex, startIndex + 2)
        lengthStr == Substring(data, startIndex + 2, startIndex + 4)
        length    == ParseInt(lengthStr)
    IN  IF length.nan THEN Null
        ELSE [ null      |-> FALSE,
               tag       |-> tag,
               length    |-> length.val,
               value     |-> Substring(data, startIndex + 4, startIndex + 4 + length.val),
               nextIndex |-> startIndex + 4 + length.val ]

parseTLV(data, startIndex) ==
    IF startIndex >= Len(data) - 3 THEN Null
    ELSE LET tag       == Substring(data, startIndex, startIndex + 2)
             lengthStr == Substring(data, startIndex + 2, startIndex + 4)
             length    == ParseInt(lengthStr)
         IN  IF length.nan \/ startIndex + 4 + length.val > Len(data) THEN Null
             ELSE [ null      |-> FALSE,
                    tag       |-> tag,
                    length    |-> length.val,
                    value     |-> Substring(data, startIndex + 4, startIndex + 4 + length.val),
                    nextIndex |-> startIndex + 4 + length.val ]

\* A variant that keeps the value a key already has.
PutFirst(obj, key, value) ==
    [k \in DOMAIN obj \cup {key} |-> IF k \in DOMAIN obj THEN obj[k] ELSE value]

\* obj[key] = value on a plain object used as a map.
Put(obj, key, value) == [k \in DOMAIN obj \cup {key} |-> IF k = key THEN value ELSE obj[k]]

\* obj[key] || "": the value, or "" when the key is absent or its value empty.
GetOrEmpty(obj, key) == IF key \in DOMAIN obj THEN obj[key] ELSE <<>>

\* The top-level tags that are assigned to a field as they are.
SimpleTagField ==
    [t \in {Tag00, Tag01, Tag52, Tag53, Tag58, Tag59, Tag60, Tag63} |->
        IF t = Tag00 THEN "payloadFormatIndicator"
        ELSE IF t = Tag01 THEN "pointOfInitiationMethod"
        ELSE IF t = Tag52 THEN "merchantCategoryCode"
        ELSE IF t = Tag53 THEN "transactionCurrency"
        ELSE IF t = Tag58 THEN "countryCode"
        ELSE IF t = Tag59 THEN "merchantName"
        ELSE IF t = Tag60 THEN "merchantCity"
        ELSE "crc"]

CompositeTags == {Tag44, Tag64}

\* The state of a handler that is not running.
NoParse ==
    /\ pc' = "idle"
    /\ qrStringToParse' = <<>>
    /\ parsedData' = <<>>
    /\ index' = 0
    /\ subParsed' = Null
    /\ subIndex' = 0
    /\ subTlvs' = <<>>

\* parseQrString(inputQrString): the Parse button (disabled while the input
\* trims to nothing) or the Enter key.
ParseClick ==
    /\ pc = "idle"
    /\ ~IsBlank(inputQrString)
    /\ pc' = "loop"
    /\ qrStringToParse' = inputQrString
    /\ parsedData' = [f \in {"additionalData"} |-> EmptyAdditionalData]
    /\ index' = 0
    /\ UNCHANGED <<subParsed, subIndex, subTlvs, genVars, crcVars, appVars>>

\* A variant that does not store the value of tag 63.
AssignSimpleSkipCrc(data, parsed) ==
    IF parsed.tag \in DOMAIN SimpleTagField /\ parsed.tag # Tag63
    THEN Put(data, SimpleTagField[parsed.tag], parsed.value)
    ELSE data

\* A variant in which a tag the switch does not know discards what was
\* parsed before it.
AssignSimpleUnknownResets(data, parsed) ==
    IF parsed.tag \in DOMAIN SimpleTagField
    THEN Put(data, SimpleTagField[parsed.tag], parsed.value)
    ELSE [f \in {"additionalData"} |-> EmptyAdditionalData]

\* The switch on parsed.tag, for the tags other than 44 and 64.
AssignSimple(data, parsed) ==
    IF parsed.tag \in DOMAIN SimpleTagField
    THEN Put(data, SimpleTagField[parsed.tag], parsed.value)
    ELSE data

\* One pass of   while (index < qrStringToParse.length)   of parseQrString.
ParseLoop ==
    /\ pc = "loop"
    /\ LET parsed == parseTLV(qrStringToParse, index)
       IN  IF ~(index < Len(qrStringToParse)) \/ parsed.null
           THEN /\ pc' = "update"
                /\ UNCHANGED <<parsedData, index, subParsed, subIndex, subTlvs>>
           ELSE IF parsed.tag \in CompositeTags
           THEN /\ pc' = "sub"
                /\ subParsed' = parsed
                /\ subIndex' = 0
                /\ subTlvs' = <<>>
                /\ UNCHANGED <<parsedData, index>>
           ELSE /\ parsedData' = AssignSimple(parsedData, parsed)
                /\ index' = parsed.nextIndex
                /\ UNCHANGED <<pc, subParsed, subIndex, subTlvs>>
    /\ UNCHANGED <<qrStringToParse, genVars, crcVars, appVars>>

\* A variant that takes the merchant id from sub-tag 01.
AssignCompositeFromSecond(data, parsed, subs) ==
    IF parsed.tag = Tag44
    THEN Put(Put(data, "merchantAccountInfo", parsed.value),
             "merchantId", GetOrEmpty(subs, Tag01))
    ELSE Put(data, "additionalData",
             [k \in AdKeys |-> GetOrEmpty(subs, AdTag[k])])

\* case "44" / case "64", once parseSubTLVs has returned subs.
AssignComposite(data, parsed, subs) ==
    IF parsed.tag = Tag44
    THEN Put(Put(data, "merchantAccountInfo", parsed.value),
             "merchantId", GetOrEmpty(subs, Tag00))
    ELSE Put(data, "additionalData",
             [k \in AdKeys |-> GetOrEmpty(subs, AdTag[k])])

\* One pass of   while (index < data.length)   of parseSubTLVs, called on
\* the value of a tag 44 or 64; when the loop ends the caller's case
\* finishes and the top-level index moves on.
ParseSubLoop ==
    /\ pc = "sub"
    /\ LET data   == subParsed.value
           parsed == parseTLV(data, subIndex)
       IN  IF ~(subIndex < Len(data)) \/ parsed.null
           THEN /\ parsedData' = AssignComposite(parsedData, subParsed, subTlvs)
                /\ index' = subParsed.nextIndex
                /\ pc' = "loop"
                /\ subParsed' = Null
                /\ subIndex' = 0
                /\ subTlvs' = <<>>
           ELSE /\ subTlvs' = Put(subTlvs, parsed.tag, parsed.value)
                /\ subIndex' = parsed.nextIndex
                /\ UNCHANGED <<pc, parsedData, index, subParsed>>
    /\ UNCHANGED <<qrStringToParse, genVars, crcVars, appVars>>

\* setFormData(prev => ({...prev, ...parsedData,
\*                       additionalData: parsedData.additionalData || prev.additionalData}))
MergeParsed(prev, data) ==
    [f \in DOMAIN prev |-> IF f \in DOMAIN data THEN data[f] ELSE prev[f]]

\* The end of parseQrString: the record is updated, the input is cleared,
\* and the effect regenerates the string.
ParseUpdate ==
    /\ pc = "update"
    /\ formData' = MergeParsed(formData, parsedData)
    /\ inputQrString' = <<>>
    /\ GenerateEffect(formData')
    /\ NoParse
    /\ UNCHANGED <<crcVars, appVars>>

-----------------------------------------------------------------------------
(***************************************************************************)
(* The native bridges: detectBridgeType and closeModule                    *)
(* (src/utils/bridgeUtils)                                                 *)
(***************************************************************************)

\* enum BridgeType
REACT_NATIVE == "React Native WebView"
IOS          == "iOS WebKit"
ANDROID      == "Android Bridge"
NONE         == "Not Available"

\* What window.webkit can be: undefined, an object without messageHandlers,
\* one whose messageHandlers has no jsMessageHandler, or the full bridge.
WebkitShapes == {"undefined", "noMessageHandlers", "noJsMessageHandler", "jsMessageHandler"}

\* The windows a host can give the page: each bridge object there or not.
\* AndroidBridge is the permission object, androidBridge the message bridge.
Windows ==
    [ ReactNativeWebView : BOOLEAN,
      webkit             : WebkitShapes,
      androidBridge      : BOOLEAN,
      AndroidBridge      : BOOLEAN ]

\* window.webkit && window.webkit.messageHandlers
\*               && window.webkit.messageHandlers.jsMessageHandler
detectBridgeType(w) ==
    IF w.ReactNativeWebView THEN REACT_NATIVE
    ELSE IF /\ w.webkit # "undefined"
            /\ w.webkit # "noMessageHandlers"
            /\ w.webkit = "jsMessageHandler" THEN IOS
    ELSE IF w.androidBridge THEN ANDROID
    ELSE NONE

\* sessionStorage.getItem(key): the stored string (as [item |-> string]), or
\* null.
getItem(storage, key) ==
    IF key \in DOMAIN storage THEN [item |-> storage[key]] ELSE Null

\* sessionStorage.removeItem("CALLBACK_URL")
clearSessionStroage(storage) ==
    [k \in DOMAIN storage \ {"CALLBACK_URL"} |-> storage[k]]

\* JSON.stringify of a string without characters to escape, and of the
\* objects closeModule builds.
JsonString(s) == <<34>> \o s \o <<34>>
JsonMember(name, text) == JsonString(name) \o <<58>> \o text
JsonStringifyData(d) ==
    <<123>> \o JsonMember(S("status"), JsonString(d.status)) \o <<125>>

\* JSON.stringify({ type: 'message',
\*                  data: { message: 'CloseWebView', data: data.data } })
JsonStringifyMessage(data) ==
    <<123>> \o JsonMember(S("type"), JsonString(S("message"))) \o <<44>>
            \o JsonMember(S("data"),
                   <<123>> \o JsonMember(S("message"), JsonString(S("CloseWebView")))
                           \o <<44>>
                           \o JsonMember(S("data"), JsonStringifyData(data.data))
                           \o <<125>>)
            \o <<125>>

\* new URL(str): the position of the colon that ends the scheme, 0 when the
\* string has no scheme (a relative reference: the constructor throws).
IsAlpha(c) == (c >= 65 /\ c <= 90) \/ (c >= 97 /\ c <= 122)
SchemeEnd(str) ==
    IF \E i \in 2..Len(str) : str[i] = 58 /\ \A j \in 1..(i - 1) : IsAlpha(str[j])
    THEN CHOOSE i \in 2..Len(str) : str[i] = 58 /\ \A j \in 1..(i - 1) : IsAlpha(str[j])
    ELSE 0

\* The position of the first c in str from position from on, 0 when none.
IndexOf(str, c, from) ==
    IF \E i \in from..Len(str) : str[i] = c
    THEN CHOOSE i \in from..Len(str) : str[i] = c /\ \A j \in from..(i - 1) : str[j] # c
    ELSE 0

\* The pieces of str between the separators sep.
RECURSIVE SplitAt(_, _)
SplitAt(str, sep) ==
    LET i == IndexOf(str, sep, 1)
    IN  IF i = 0 THEN <<str>>
        ELSE <<SubSeq(str, 1, i - 1)>> \o SplitAt(SubSeq(str, i + 1, Len(str)), sep)

\* One name=value pair of a query.
QueryPair(piece) ==
    LET i == IndexOf(piece, 61, 1)
    IN  IF i = 0 THEN [name |-> piece, value |-> <<>>]
        ELSE [name |-> SubSeq(piece, 1, i - 1), value |-> SubSeq(piece, i + 1, Len(piece))]

\* new URL(str) for a string with a scheme: the text before the query and
\* the list of its search parameters.
ParseUrl(str) ==
    LET q      == IndexOf(str, 63, 1)
        pieces == IF q = 0 \/ q = Len(str) THEN <<>>
                  ELSE SplitAt(SubSeq(str, q + 1, Len(str)), 38)
    IN  [ base         |-> IF q = 0 THEN str ELSE SubSeq(str, 1, q - 1),
          searchParams |-> [i \in 1..Len(pieces) |-> QueryPair(pieces[i])] ]

\* A variant that adds the parameter after the ones the URL has.
SearchParamsAppend(params, name, value) ==
    Append(params, [name |-> name, value |-> value])

\* url.searchParams.set(name, value): the first parameter of that name takes
\* the value and the others of that name go; without one it is appended.
SearchParamsSet(params, name, value) ==
    IF \E i \in 1..Len(params) : params[i].name = name
    THEN LET first == CHOOSE i \in 1..Len(params) :
                          /\ params[i].name = name
                          /\ \A j \in 1..(i - 1) : params[j].name # name
             kept  == SelectSeq([i \in 1..Len(params) |->
                                    IF i = first
                                    THEN [name |-> name, value |-> value, keep |-> TRUE]
                                    ELSE [name |-> params[i].name, value |-> params[i].value,
                                          keep |-> params[i].name # name]],
                                LAMBDA p : p.keep)
         IN  [i \in 1..Len(kept) |-> [name |-> kept[i].name, value |-> kept[i].value]]
    ELSE Append(params, [name |-> name, value |-> value])

\* The serializer of search parameters: letters, digits and * - . _ stay,
\* a space becomes +, every other byte is written %XX.
FormEncodeByte(b) ==
    IF IsAlpha(b) \/ IsDigit(b) \/ b \in {42, 45, 46, 95} THEN <<b>>
    ELSE IF b = 32 THEN <<43>>
    ELSE <<37>> \o ToUpperCase(PadStart(ToStringRadix(b, 16), 2, 48))

RECURSIVE FormEncodeBytes(_, _)
FormEncodeBytes(bytes, i) ==
    IF i > Len(bytes) THEN <<>>
    ELSE FormEncodeByte(bytes[i]) \o FormEncodeBytes(bytes, i + 1)

FormEncode(str) == FormEncodeBytes(TextEncode(str), 1)

RECURSIVE SerializeParams(_, _)
SerializeParams(params, i) ==
    IF i > Len(params) THEN <<>>
    ELSE (IF i = 1 THEN <<>> ELSE <<38>>)
             \o FormEncode(params[i].name) \o <<61>> \o FormEncode(params[i].value)
             \o SerializeParams(params, i + 1)

\* url.toString()
UrlToString(url) ==
    IF url.searchParams = <<>> THEN url.base
    ELSE url.base \o <<63>> \o SerializeParams(url.searchParams, 1)

\* Strings a host may have stored under CALLBACK_URL: absolute URLs without
\* a query, with other parameters, with a kpdata parameter already there;
\* a relative reference; the empty string.
CallbackBase == S("https") \o <<58, 47, 47>> \o S("pay.example.com") \o <<47>> \o S("done")
CallbackUrlChoices ==
    { CallbackBase,
      CallbackBase \o <<63>> \o S("kpdata") \o <<61>> \o S("old") \o <<38>> \o S("lang") \o <<61>> \o S("ko"),
      CallbackBase \o <<63>> \o S("lang") \o <<61>> \o S("ko"),
      <<47>> \o S("done"),
      <<>> }

\* type ModuleStatus, and the payloads closeModule is called with
\* (DefaultPayload is the one with IN_PROGRESS).
ModuleStatus == { S("IN") \o <<95>> \o S("PROGRESS"), S("COMPLETED"), S("FAILED") }
PayloadChoices == { [message |-> S("CloseWebView"), data |-> [status |-> st]] : st \in ModuleStatus }

\* The number of messages posted after which closeModule is not called again.
MaxPosted == 2

\* sendNativeMessage(messageData): the first bridge found takes the message;
\* reading jsMessageHandler of a webkit without messageHandlers throws, and
\* the catch returns false.
sendNativeMessage(messageData) ==
    IF window.ReactNativeWebView
    THEN /\ posted' = Append(posted, [bridge |-> REACT_NATIVE, messageData |-> messageData])
         /\ closeResult' = "true"
    ELSE IF window.webkit = "noMessageHandlers"
    THEN /\ closeResult' = "false"
         /\ UNCHANGED posted
    ELSE IF window.webkit # "undefined" /\ window.webkit = "jsMessageHandler"
    THEN /\ posted' = Append(posted, [bridge |-> IOS, messageData |-> messageData])
         /\ closeResult' = "true"
    ELSE IF window.androidBridge
    THEN /\ posted' = Append(posted, [bridge |-> ANDROID, messageData |-> messageData])
         /\ closeResult' = "true"
    ELSE /\ closeResult' = "false"
         /\ UNCHANGED posted

\* closeModule(data): with a callback URL stored the page is redirected to
\* it (new URL throws a TypeError for a string without a scheme), else the
\* message goes to the native bridge.
closeModule ==
    /\ Len(posted) < MaxPosted
    /\ \E data \in PayloadChoices :
          /\ closeData' = data
          /\ LET got         == getItem(sessionStorage, "CALLBACK_URL")
              callbackUrl == got.item
             IN  IF got # Null /\ callbackUrl # <<>>
                 THEN IF SchemeEnd(callbackUrl) = 0
                      THEN /\ closeResult' = "TypeError"
                           /\ UNCHANGED <<sessionStorage, location, posted>>
                      ELSE LET url == ParseUrl(callbackUrl)
                               set == [url EXCEPT !.searchParams =
                                          SearchParamsSet(url.searchParams, S("kpdata"),
                                                          JsonStringifyData(data.data))]
                           IN  /\ sessionStorage' = clearSessionStroage(sessionStorage)
                               /\ location' = [href |-> UrlToString(set)]
                               /\ closeResult' = "true"
                               /\ UNCHANGED posted
                 ELSE /\ sendNativeMessage(JsonStringifyMessage(data))
                      /\ UNCHANGED <<sessionStorage, location>>
    /\ UNCHANGED <<window, codecVars, pageVars, messageVars, scannerVars>>

-----------------------------------------------------------------------------
(***************************************************************************)
(* The message history: MessageProvider (src/context/MessageContext.tsx)   *)
(***************************************************************************)

\* The values nanoid() gives (two of them, so that equal ids can meet).
NanoIds == {"V1StGXR8", "Z5jdHi6B"}

\* The latest time of the clock, and the longest history followed.
MaxNow == 2
MaxHistory == 3

\* Time passes.
Tick ==
    /\ now < MaxNow
    /\ now' = now + 1
    /\ UNCHANGED <<messageHistory, historyCall, codecVars, pageVars, bridgeVars, scannerVars>>

\* A variant that puts the new item at the end.
AddedToHistoryLast(history, id, payload, success, target) ==
    Append(history, [id |-> id, timestamp |-> now, payload |-> payload,
                     success |-> success, target |-> target])

\* addMessageToHistory(payload, success, target) with the id nanoid() gave:
\* setMessageHistory(prev => [newHistoryItem, ...prev])
AddedToHistory(history, id, payload, success, target) ==
    << [id |-> id, timestamp |-> now, payload |-> payload,
        success |-> success, target |-> target] >> \o history

\* Payloads of the calls followed here: templates of the editor.
PayloadNames == {"Default", "Payment Success"}

\* addMessageToHistory as the editor calls it after closeModule: the target
\* is the bridge type it detected.
addMessageToHistory ==
    /\ Len(messageHistory) < MaxHistory
    /\ \E id \in NanoIds, payload \in PayloadNames, success \in BOOLEAN :
          LET target == detectBridgeType(window)
          IN  /\ messageHistory' = AddedToHistory(messageHistory, id, payload, success, target)
              /\ historyCall' = [op |-> "addMessageToHistory",
                                 args |-> <<id, payload, success, target>>]
    /\ UNCHANGED <<now, codecVars, pageVars, bridgeVars, scannerVars>>

\* setMessageHistory([])
clearHistory ==
    /\ messageHistory' = <<>>
    /\ historyCall' = [op |-> "clearHistory", args |-> <<>>]
    /\ UNCHANGED <<now, codecVars, pageVars, bridgeVars, scannerVars>>

\* prev.filter(item => item.id !== id)
Filtered(history, id) == SelectSeq(history, LAMBDA item : item.id # id)

\* removeHistoryItem(id): the panel passes the id of an item it shows; any id
\* is followed here.
removeHistoryItem ==
    /\ \E id \in NanoIds :
          /\ messageHistory' = Filtered(messageHistory, id)
          /\ historyCall' = [op |-> "removeHistoryItem", args |-> <<id>>]
    /\ UNCHANGED <<now, codecVars, pageVars, bridgeVars, scannerVars>>

-----------------------------------------------------------------------------
(***************************************************************************)
(* NativeBarcodeScanner (ScannerPage.tsx): startScanning, the detection     *)
(* loop, stopScanning, handleBarcodeDetected                               *)
(***************************************************************************)

\* The number of startScanning calls and of frames followed.
MaxSessions == 2
MaxFrames == 11

\* What detect() can find.
BarcodeChoices == { [rawValue |-> "4006381333931", format |-> "code_128"] }

\* saveProcessedFrame(canvas) in the closure of session s: frameCounter is
\* the value of the render the closure was created in.
\*   frameNumber: frameCounter + 1;  setFrameCounter(prev => prev + 1);
\*   setProcessedFrames(prev => [newFrame, ...prev].slice(0, 10))
saveProcessedFrame(s) ==
    /\ frameCounter' = frameCounter + 1
    /\ processedFrames' =
          LET updated == << [frameNumber |-> sessions[s] + 1, timestamp |-> now] >>
                             \o processedFrames
          IN  SubSeq(updated, 1, Min(Len(updated), 10))

\* startScanning, up to the await of getUserMedia.  The button is shown
\* while isScanning is false.
startScanning ==
    /\ ~isScanning
    /\ Len(sessions) < MaxSessions
    /\ isScanning' = TRUE
    /\ isScanningRef' = TRUE
    /\ error' = ""
    /\ scanResult' = Null
    /\ sessions' = Append(sessions, frameCounter)
    /\ userMedia' = userMedia \cup {Len(sessions) + 1}
    /\ UNCHANGED <<processedFrames, frameCounter, streamRef, srcObject, detectorRef,
                   animationRef, onloadedmetadata, metadataDue, detecting, scheduled,
                   codecVars, pageVars, bridgeVars, messageVars>>

\* startScanning after the await: the stream is given to the video and to
\* streamRef, the detector is created, the loadedmetadata handler is set.
startScanningResolved ==
    /\ \E s \in userMedia :
          /\ userMedia' = userMedia \ {s}
          /\ srcObject' = s
          /\ streamRef' = s
          /\ detectorRef' = TRUE
          /\ onloadedmetadata' = s
          /\ metadataDue' = TRUE
    /\ UNCHANGED <<isScanning, scanResult, error, processedFrames, frameCounter,
                   animationRef, isScanningRef, sessions, detecting, scheduled,
                   codecVars, pageVars, bridgeVars, messageVars>>

\* startScanning when getUserMedia rejects: the catch block.
startScanningRejected ==
    /\ \E s \in userMedia : userMedia' = userMedia \ {s}
    /\ error' = "Failed to start camera"
    /\ isScanning' = FALSE
    /\ isScanningRef' = FALSE
    /\ UNCHANGED <<scanResult, processedFrames, frameCounter, streamRef, srcObject,
                   detectorRef, animationRef, sessions, onloadedmetadata, metadataDue,
                   detecting, scheduled, codecVars, pageVars, bridgeVars, messageVars>>

\* detectBarcodes of session s, up to the await of detect(): it returns at
\* once without a detector or when isScanningRef is false, else it saves the
\* frame and calls detect().
detectBarcodes(s) ==
    IF ~detectorRef \/ ~isScanningRef
    THEN UNCHANGED <<processedFrames, frameCounter, detecting>>
    ELSE /\ saveProcessedFrame(s)
         /\ detecting' = detecting \cup {s}

\* The video fires loadedmetadata for its source: the handler set last runs.
loadedmetadata ==
    /\ metadataDue
    /\ srcObject # 0
    /\ onloadedmetadata # 0
    /\ frameCounter < MaxFrames
    /\ metadataDue' = FALSE
    /\ detectBarcodes(onloadedmetadata)
    /\ UNCHANGED <<isScanning, scanResult, error, streamRef, srcObject, detectorRef,
                   animationRef, isScanningRef, sessions, userMedia, onloadedmetadata,
                   scheduled, codecVars, pageVars, bridgeVars, messageVars>>

\* The browser runs a callback given to requestAnimationFrame.
animationFrame ==
    /\ frameCounter < MaxFrames
    /\ \E s \in scheduled :
          /\ scheduled' = scheduled \ {s}
          /\ detectBarcodes(s)
    /\ UNCHANGED <<isScanning, scanResult, error, streamRef, srcObject, detectorRef,
                   animationRef, isScanningRef, sessions, userMedia, onloadedmetadata,
                   metadataDue, codecVars, pageVars, bridgeVars, messageVars>>

\* What stopScanning does to the refs and to the calls in flight: the frame
\* request animationRef names is cancelled, the stream is stopped and
\* dropped, the video loses its source, the detector is dropped.
StopEffects ==
    /\ isScanning' = FALSE
    /\ isScanningRef' = FALSE
    /\ scheduled' = IF animationRef # 0 THEN scheduled \ {animationRef} ELSE scheduled
    /\ animationRef' = 0
    /\ streamRef' = 0
    /\ srcObject' = 0
    /\ metadataDue' = FALSE
    /\ detectorRef' = FALSE

\* stopScanning from its button, shown while isScanning is true.
stopScanning ==
    /\ isScanning
    /\ StopEffects
    /\ UNCHANGED <<scanResult, error, processedFrames, frameCounter, sessions, userMedia,
                   onloadedmetadata, detecting, codecVars, pageVars, bridgeVars, messageVars>>

\* handleBarcodeDetected(barcode): the result is set, scanning is stopped
\* and the scan is added to the message history.
handleBarcodeDetected(barcode) ==
    /\ scanResult' = [text |-> barcode.rawValue, format |-> barcode.format,
                      timestamp |-> now, source |-> "camera"]
    /\ StopEffects
    /\ \E id \in NanoIds :
          LET target  == detectBridgeType(window)
              payload == [scanResult |-> barcode.rawValue, scanType |-> "barcode",
                          format |-> barcode.format, source |-> "native_camera",
                          timestamp |-> now]
          IN  /\ messageHistory' = AddedToHistory(messageHistory, id, payload, TRUE, target)
              /\ historyCall' = [op |-> "addMessageToHistory",
                                 args |-> <<id, payload, TRUE, target>>]

\* detectBarcodes of session s after the await of detect(): a barcode found
\* goes to handleBarcodeDetected, otherwise (nothing found, or detect threw)
\* the next frame is requested.
detectResolved ==
    /\ \E s \in detecting :
          /\ detecting' = detecting \ {s}
          /\ \/ /\ \E barcode \in BarcodeChoices : handleBarcodeDetected(barcode)
                /\ UNCHANGED <<error, processedFrames, frameCounter, sessions, userMedia,
                               onloadedmetadata, now>>
             \/ /\ scheduled' = scheduled \cup {s}
                /\ animationRef' = s
                /\ UNCHANGED <<isScanning, scanResult, error, processedFrames, frameCounter,
                               streamRef, srcObject, detectorRef, isScanningRef, sessions,
                               userMedia, onloadedmetadata, metadataDue, messageVars>>
    /\ UNCHANGED <<codecVars, pageVars, bridgeVars>>

\* The "Scan Again" button, shown with a result: resetScanner() and
\* setIsScanning(true).
scanAgain ==
    /\ scanResult # Null
    /\ scanResult' = Null
    /\ error' = ""
    /\ isScanning' = TRUE
    /\ UNCHANGED <<processedFrames, frameCounter, streamRef, srcObject, detectorRef,
                   animationRef, isScanningRef, sessions, userMedia, onloadedmetadata,
                   metadataDue, detecting, scheduled, codecVars, pageVars, bridgeVars, messageVars>>

-----------------------------------------------------------------------------
(***************************************************************************)
(* ScannerPage (ScannerPage.tsx): the permission effect, handleScan,       *)
(* handleFileUpload, clearHistory                                          *)
(***************************************************************************)

\* The number of files chosen, and of messages after which no scan is
\* followed.
MaxUploads == 2
MaxMessages == 12

\* What the camera scanner hands to onUpdate, and the files chosen.
ScanTexts == {"https://example.com/qr-content"}
FileNames == {"qr.png"}

\* collectDebugInfo: the record built when the page is mounted, in a browser
\* with a camera and with the file API.
CollectedInfo ==
    [ bridgeType |-> detectBridgeType(window),
      cameraSupported |-> TRUE,
      fileUploadSupported |-> TRUE ]

\* The permission effect, run with the debugInfo of the render (info):
\*   if (window.AndroidBridge) { ...checkCameraPermission();
\*                               window.onCameraPermissionResult = ... }
\*   else if (debugInfo?.bridgeType === 'ANDROID') { checked, not granted }
\*   else { checked, granted }
PermissionEffect(info) ==
    IF window.AndroidBridge
    THEN /\ onCameraPermissionResult' = TRUE
         /\ UNCHANGED <<permissionChecked, permissionGranted>>
    ELSE IF info # Null /\ info.bridgeType = "ANDROID"
    THEN /\ permissionChecked' = TRUE
         /\ permissionGranted' = "false"
         /\ UNCHANGED onCameraPermissionResult
    ELSE /\ permissionChecked' = TRUE
         /\ permissionGranted' = "true"
         /\ UNCHANGED onCameraPermissionResult

\* The page is mounted: collectDebugInfo starts, the permission effect runs
\* with debugInfo still null.
pageMount ==
    /\ pagePc = "unmounted"
    /\ pagePc' = "collecting"
    /\ PermissionEffect(debugInfo)
    /\ UNCHANGED <<debugInfo, pageScanResult, pageIsScanning, pageError, scanHistory,
                   activeTab, uploads, codecVars, bridgeVars, messageVars, scannerVars>>

\* collectDebugInfo ends with setDebugInfo(info); debugInfo?.bridgeType has
\* changed, so the permission effect runs again.
collectDebugInfo ==
    /\ pagePc = "collecting"
    /\ pagePc' = "ready"
    /\ debugInfo' = CollectedInfo
    /\ PermissionEffect(debugInfo')
    /\ UNCHANGED <<pageScanResult, pageIsScanning, pageError, scanHistory,
                   activeTab, uploads, codecVars, bridgeVars, messageVars, scannerVars>>

\* The native side answers checkCameraPermission through the callback the
\* effect has set: granted === true || granted === "true".
cameraPermissionResult ==
    /\ onCameraPermissionResult
    /\ \E granted \in {"true", "false"} :
          /\ permissionChecked' = TRUE
          /\ permissionGranted' = granted
    /\ UNCHANGED <<pagePc, debugInfo, onCameraPermissionResult, pageScanResult,
                   pageIsScanning, pageError, scanHistory, activeTab, uploads,
                   codecVars, bridgeVars, messageVars, scannerVars>>

\* The camera tab shows its controls, the upload tab its file input.
CameraShown ==
    /\ debugInfo # Null
    /\ debugInfo.cameraSupported
    /\ activeTab = "camera"
    /\ permissionChecked
    /\ permissionGranted = "true"

UploadShown ==
    /\ debugInfo # Null
    /\ debugInfo.fileUploadSupported
    /\ activeTab = "upload"

setActiveTab ==
    /\ debugInfo # Null
    /\ \E tab \in {"camera", "upload"} : activeTab' = tab
    /\ UNCHANGED <<pagePc, debugInfo, permissionGranted, permissionChecked,
                   onCameraPermissionResult, pageScanResult, pageIsScanning, pageError,
                   scanHistory, uploads, codecVars, bridgeVars, messageVars, scannerVars>>

\* startScanning of ScannerPage
pageStartScanning ==
    /\ CameraShown
    /\ ~pageIsScanning
    /\ pageError' = ""
    /\ pageScanResult' = Null
    /\ pageIsScanning' = TRUE
    /\ UNCHANGED <<pagePc, debugInfo, permissionGranted, permissionChecked,
                   onCameraPermissionResult, scanHistory, activeTab, uploads,
                   codecVars, bridgeVars, messageVars, scannerVars>>

\* stopScanning of ScannerPage
pageStopScanning ==
    /\ CameraShown
    /\ pageIsScanning
    /\ pageIsScanning' = FALSE
    /\ UNCHANGED <<pagePc, debugInfo, permissionGranted, permissionChecked,
                   onCameraPermissionResult, pageScanResult, pageError, scanHistory,
                   activeTab, uploads, codecVars, bridgeVars, messageVars, scannerVars>>

\* A variant that keeps ten of the earlier scans.
KeptScansTen(prev) == SubSeq(prev, 1, Min(Len(prev), 10))

\* prev.slice(0, 9)
KeptScans(prev) == SubSeq(prev, 1, Min(Len(prev), 9))

\* setScanResult(scanData); setScanHistory(prev => [scanData, ...prev.slice(0, 9)]);
\* addMessageToHistory({...}, true, debugInfo?.bridgeType)
RecordScan(scanData, payload) ==
    /\ pageScanResult' = scanData
    /\ scanHistory' = <<scanData>> \o KeptScans(scanHistory)
    /\ \E id \in NanoIds :
          LET target == debugInfo.bridgeType
          IN  /\ messageHistory' = AddedToHistory(messageHistory, id, payload, TRUE, target)
              /\ historyCall' = [op |-> "addMessageToHistory",
                                 args |-> <<id, payload, TRUE, target>>]

\* The scan handleScan makes of a text, and what it adds to the message
\* history.
CameraScan(result) == [text |-> <<result>>, timestamp |-> now, source |-> "camera"]

CameraPayload(result) ==
    [scanResult |-> <<result>>, scanType |-> "qr_barcode", source |-> "camera",
     timestamp |-> now]

\* handleScan(result, rawResult), called by the camera scanner while it is
\* rendered; an empty text is ignored.
handleScan ==
    /\ CameraShown
    /\ pageIsScanning
    /\ Len(messageHistory) < MaxMessages
    /\ \E result \in ScanTexts \cup {""} :
          IF result # ""
          THEN /\ RecordScan(CameraScan(result), CameraPayload(result))
               /\ pageIsScanning' = FALSE
          ELSE UNCHANGED <<pageScanResult, scanHistory, pageIsScanning, messageHistory,
                           historyCall>>
    /\ UNCHANGED <<pagePc, debugInfo, permissionGranted, permissionChecked,
                   onCameraPermissionResult, pageError, activeTab, uploads, now,
                   codecVars, bridgeVars, scannerVars>>

\* handleFileUpload: without a file nothing happens, with one the reader
\* starts.
handleFileUpload ==
    /\ UploadShown
    /\ Len(uploads) < MaxUploads
    /\ \E file \in FileNames :
          uploads' = Append(uploads, [file |-> file, stage |-> "reading"])
    /\ UNCHANGED <<pagePc, debugInfo, permissionGranted, permissionChecked,
                   onCameraPermissionResult, pageScanResult, pageIsScanning, pageError,
                   scanHistory, activeTab, codecVars, bridgeVars, messageVars, scannerVars>>

\* reader.onload: the image starts to load.  reader.onerror: the error text.
readerDone ==
    /\ \E u \in 1..Len(uploads) :
          /\ uploads[u].stage = "reading"
          /\ \/ /\ uploads' = [uploads EXCEPT ![u].stage = "loading"]
                /\ UNCHANGED pageError
             \/ /\ uploads' = [uploads EXCEPT ![u].stage = "failed"]
                /\ pageError' = "Failed to read uploaded file"
    /\ UNCHANGED <<pagePc, debugInfo, permissionGranted, permissionChecked,
                   onCameraPermissionResult, pageScanResult, pageIsScanning,
                   scanHistory, activeTab, codecVars, bridgeVars, messageVars, scannerVars>>

\* img.onload: the scan made up for the file, with the time in its text.
imageLoaded ==
    /\ Len(messageHistory) < MaxMessages
    /\ \E u \in 1..Len(uploads) :
          /\ uploads[u].stage = "loading"
          /\ uploads' = [uploads EXCEPT ![u].stage = "done"]
          /\ LET mockResult == <<"File upload scan: ", uploads[u].file, now>>
             IN  RecordScan([text |-> mockResult, timestamp |-> now, source |-> "file"],
                            [scanResult |-> mockResult, scanType |-> "qr_barcode",
                             source |-> "file", fileName |-> uploads[u].file,
                             timestamp |-> now])
    /\ UNCHANGED <<pagePc, debugInfo, permissionGranted, permissionChecked,
                   onCameraPermissionResult, pageIsScanning, pageError, activeTab, now,
                   codecVars, bridgeVars, scannerVars>>

\* clearHistory of ScannerPage; its button is shown with a history.
pageClearHistory ==
    /\ scanHistory # <<>>
    /\ scanHistory' = <<>>
    /\ UNCHANGED <<pagePc, debugInfo, permissionGranted, permissionChecked,
                   onCameraPermissionResult, pageScanResult, pageIsScanning, pageError,
                   activeTab, uploads, codecVars, bridgeVars, messageVars, scannerVars>>

-----------------------------------------------------------------------------
(***************************************************************************)
(* Each part at rest, and the parts on their own                           *)
(***************************************************************************)

\* No host objects, nothing stored, nothing sent.
BridgeOff ==
    /\ window = [ReactNativeWebView |-> FALSE, webkit |-> "undefined",
                 androidBridge |-> FALSE, AndroidBridge |-> FALSE]
    /\ sessionStorage = <<>>
    /\ location = Null
    /\ posted = <<>>
    /\ closeData = Null
    /\ closeResult = "none"

\* An empty history at time 0.
MessagesOff ==
    /\ messageHistory = <<>>
    /\ historyCall = [op |-> "none", args |-> <<>>]
    /\ now = 0

\* NativeBarcodeScanner as it is rendered once support and permission are
\* known: not scanning, nothing in flight.
ScannerOff ==
    /\ isScanning = FALSE
    /\ scanResult = Null
    /\ error = ""
    /\ processedFrames = <<>>
    /\ frameCounter = 0
    /\ streamRef = 0
    /\ srcObject = 0
    /\ detectorRef = FALSE
    /\ animationRef = 0
    /\ isScanningRef = FALSE
    /\ sessions = <<>>
    /\ userMedia = {}
    /\ onloadedmetadata = 0
    /\ metadataDue = FALSE
    /\ detecting = {}
    /\ scheduled = {}

\* ScannerPage before it is mounted.
PageOff ==
    /\ pagePc = "unmounted"
    /\ debugInfo = Null
    /\ permissionGranted = "null"
    /\ permissionChecked = FALSE
    /\ onCameraPermissionResult = FALSE
    /\ pageScanResult = Null
    /\ pageIsScanning = FALSE
    /\ pageError = ""
    /\ scanHistory = <<>>
    /\ activeTab = "camera"
    /\ uploads = <<>>

AppOff == BridgeOff /\ MessagesOff /\ ScannerOff /\ PageOff

\* The codec component before it is mounted.
CodecOff ==
    /\ formData = InitialFormData
    /\ qrString = <<>>
    /\ tlvs = <<>>
    /\ inputQrString = <<>>
    /\ pc = "mount"
    /\ qrStringToParse = <<>>
    /\ parsedData = <<>>
    /\ index = 0
    /\ subParsed = Null
    /\ subIndex = 0
    /\ subTlvs = <<>>
    /\ crcPc = "off"
    /\ crcData = <<>>
    /\ crcBytes = <<>>
    /\ crcI = 0
    /\ crcJ = 0
    /\ crcAcc = 0
    /\ crcOut = <<>>

\* closeModule called in a page of any host, with any of the stored strings
\* or none.
InitBridge ==
    /\ CodecOff
    /\ window \in Windows
    /\ sessionStorage \in {<<>>} \cup { [k \in {"CALLBACK_URL"} |-> u] : u \in CallbackUrlChoices }
    /\ location = Null
    /\ posted = <<>>
    /\ closeData = Null
    /\ closeResult = "none"
    /\ MessagesOff
    /\ ScannerOff
    /\ PageOff

NextBridge == closeModule

SpecBridge == InitBridge /\ [][NextBridge]_vars

\* The message history on its own.
InitMessages == CodecOff /\ BridgeOff /\ MessagesOff /\ ScannerOff /\ PageOff

NextMessages ==
    \/ Tick
    \/ addMessageToHistory
    \/ clearHistory
    \/ removeHistoryItem

SpecMessages == InitMessages /\ [][NextMessages]_vars

\* NativeBarcodeScanner on its own, in a browser or in a React Native host.
InitScanner ==
    /\ CodecOff
    /\ window \in {w \in Windows : ~w.AndroidBridge /\ ~w.androidBridge /\ w.webkit = "undefined"}
    /\ sessionStorage = <<>>
    /\ location = Null
    /\ posted = <<>>
    /\ closeData = Null
    /\ closeResult = "none"
    /\ MessagesOff
    /\ ScannerOff
    /\ PageOff

NextScanner ==
    \/ startScanning
    \/ startScanningResolved
    \/ startScanningRejected
    \/ loadedmetadata
    \/ animationFrame
    \/ detectResolved
    \/ stopScanning
    \/ scanAgain

SpecScanner == InitScanner /\ [][NextScanner]_vars

\* ScannerPage from its mount to the end of the permission check, in a page
\* of any host.
InitPage ==
    /\ CodecOff
    /\ window \in Windows
    /\ sessionStorage = <<>>
    /\ location = Null
    /\ posted = <<>>
    /\ closeData = Null
    /\ closeResult = "none"
    /\ MessagesOff
    /\ ScannerOff
    /\ PageOff

NextPage ==
    \/ pageMount
    \/ collectDebugInfo
    \/ cameraPermissionResult

SpecPage == InitPage /\ [][NextPage]_vars

\* The scan history and the message history after n camera scans of a page
\* just mounted, each with the first id.
RECURSIVE ScansAfter(_)
ScansAfter(n) ==
    IF n = 0 THEN [scanHistory |-> <<>>, messageHistory |-> <<>>]
    ELSE LET prev   == ScansAfter(n - 1)
             result == CHOOSE t \in ScanTexts : TRUE
             id     == CHOOSE i \in NanoIds : TRUE
         IN  [ scanHistory |-> <<CameraScan(result)>> \o KeptScans(prev.scanHistory),
               messageHistory |-> AddedToHistory(prev.messageHistory, id,
                                                 CameraPayload(result), TRUE, NONE) ]

\* The number of scans the page has made when it is taken up.
ScansBefore == 9

\* ScannerPage in a browser without a bridge, mounted, with permission, after
\* its first camera scans; then scans, uploads and clears in any order.
InitPageScans ==
    /\ CodecOff
    /\ BridgeOff
    /\ window = [ReactNativeWebView |-> FALSE, webkit |-> "undefined",
                 androidBridge |-> FALSE, AndroidBridge |-> FALSE]
    /\ ScannerOff
    /\ now = 0
    /\ messageHistory = ScansAfter(ScansBefore).messageHistory
    /\ historyCall = [op |-> "addMessageToHistory",
                      args |-> <<Head(messageHistory).id, Head(messageHistory).payload,
                                 TRUE, NONE>>]
    /\ pagePc = "ready"
    /\ debugInfo = CollectedInfo
    /\ permissionGranted = "true"
    /\ permissionChecked = TRUE
    /\ onCameraPermissionResult = FALSE
    /\ scanHistory = ScansAfter(ScansBefore).scanHistory
    /\ pageScanResult = Head(scanHistory)
    /\ pageIsScanning = FALSE
    /\ pageError = ""
    /\ activeTab = "camera"
    /\ uploads = <<>>

NextPageScans ==
    \/ Tick
    \/ setActiveTab
    \/ pageStartScanning
    \/ pageStopScanning
    \/ handleScan
    \/ handleFileUpload
    \/ readerDone
    \/ imageLoaded
    \/ pageClearHistory

SpecPageScans == InitPageScans /\ [][NextPageScans]_vars

-----------------------------------------------------------------------------
(***************************************************************************)
(* The form                                                                *)
(***************************************************************************)

\* What the user types into the fields of the form.
InputChoices ==
    [ merchantId   |-> {S("com.konai.konacard"), <<>>},
      merchantName |-> {S("KONA"), S("AB")} ]

AdditionalChoices == [k \in {"01"} |-> {<<53580, 49828, 53944>>}]

\* Records whose encoded strings are pasted into the parser's input: the
\* initial record, and the initial record with a merchant id of
\* LongMerchantIdLen characters (a tag 44 value of 100 characters).
LongMerchantIdLen == 46

SampleRecords ==
    { InitialFormData,
      [InitialFormData EXCEPT !.merchantId = Rep(97, LongMerchantIdLen)] }

EncodedSamples == {generateQrString(r).qrString : r \in SampleRecords}

\* Other strings typed into the parser's input.
TypedInputs ==
    { S("5902AB"),                       \* one field only
      S("5902AB5309KO"),                 \* declared length beyond the end
      S("5902AB53zzKO"),                 \* length header "zz"
      S("5902AB971aQ"),                  \* length header "1a"
      S("9901a98-9") }                   \* length header "-9"

Mount ==
    /\ pc = "mount"
    /\ GenerateEffect(formData)
    /\ pc' = "idle"
    /\ UNCHANGED <<formData, inputQrString, qrStringToParse, parsedData, index,
                   subParsed, subIndex, subTlvs, crcVars, appVars>>

handleInputChange ==
    /\ pc = "idle"
    /\ \E field \in DOMAIN InputChoices : \E value \in InputChoices[field] :
          formData' = [formData EXCEPT ![field] = value]
    /\ GenerateEffect(formData')
    /\ UNCHANGED <<inputQrString, parseVars, crcVars, appVars>>

handleAdditionalDataChange ==
    /\ pc = "idle"
    /\ \E key \in DOMAIN AdditionalChoices : \E value \in AdditionalChoices[key] :
          formData' = [formData EXCEPT !.additionalData[key] = value]
    /\ GenerateEffect(formData')
    /\ UNCHANGED <<inputQrString, parseVars, crcVars, appVars>>

\* resetForm: the record is set back to the initial values.
resetForm ==
    /\ pc = "idle"
    /\ formData' = InitialFormData
    /\ GenerateEffect(formData')
    /\ UNCHANGED <<inputQrString, parseVars, crcVars, appVars>>

\* onChange of the parser's input: typed text, or an encoded string pasted.
setInputQrString ==
    /\ pc = "idle"
    /\ \E value \in TypedInputs \cup EncodedSamples : inputQrString' = value
    /\ UNCHANGED <<formData, qrString, tlvs, parseVars, crcVars, appVars>>

CrcOff ==
    /\ crcPc = "off"
    /\ crcData = <<>>
    /\ crcBytes = <<>>
    /\ crcI = 0
    /\ crcJ = 0
    /\ crcAcc = 0
    /\ crcOut = <<>>

Init ==
    /\ formData = InitialFormData
    /\ qrString = <<>>
    /\ tlvs = <<>>
    /\ inputQrString = <<>>
    /\ pc = "mount"
    /\ qrStringToParse = <<>>
    /\ parsedData = <<>>
    /\ index = 0
    /\ subParsed = Null
    /\ subIndex = 0
    /\ subTlvs = <<>>
    /\ CrcOff
    /\ AppOff

Next ==
    \/ Mount
    \/ handleInputChange
    \/ handleAdditionalDataChange
    \/ resetForm
    \/ setInputQrString
    \/ ParseClick
    \/ ParseLoop
    \/ ParseSubLoop
    \/ ParseUpdate

Spec == Init /\ [][Next]_vars

-----------------------------------------------------------------------------
(***************************************************************************)
(* The encoder alone, over records of many field lengths                   *)
(***************************************************************************)

\* Lengths tried for the fields: around the two-digit limit, and around the
\* lengths at which the composite values of tags 44 and 64 reach 100.
MerchantIdLens   == {0, 1, 45, 46, 99, 100}
MerchantNameLens == {0, 99, 100}
DescriptionLens  == {0, 82, 83, 99, 100}

EncodeRecords ==
    { [InitialFormData EXCEPT !.merchantId = mid,
                              !.merchantName = name,
                              !.additionalData["01"] = descr] :
        mid   \in {InitialFormData.merchantId} \cup {Rep(97, n) : n \in MerchantIdLens},
        name  \in {InitialFormData.merchantName} \cup {Rep(98, n) : n \in MerchantNameLens},
        descr \in {InitialFormData.additionalData["01"]} \cup {Rep(53580, n) : n \in DescriptionLens} }

InitEncode ==
    /\ formData \in EncodeRecords
    /\ qrString = <<>>
    /\ tlvs = <<>>
    /\ inputQrString = <<>>
    /\ pc = "mount"
    /\ qrStringToParse = <<>>
    /\ parsedData = <<>>
    /\ index = 0
    /\ subParsed = Null
    /\ subIndex = 0
    /\ subTlvs = <<>>
    /\ CrcOff
    /\ AppOff

NextEncode == Mount

SpecEncode == InitEncode /\ [][NextEncode]_vars

-----------------------------------------------------------------------------
(***************************************************************************)
(* calculateCRC16 step by step                                             *)
(***************************************************************************)

MaxCrcLen == 3

\* Code units of 1, 2 and 3 UTF-8 bytes, and the two halves of a pair.
CrcAlphabet == {49, 233, 53580, 55357, 56832}

CrcInputs ==
    UNION {[1..n -> CrcAlphabet] : n \in 0..MaxCrcLen} \cup {S("123456789")}

\* const bytes = new TextEncoder().encode(data); let crc = 0xFFFF; i = 0
CrcStart ==
    /\ crcPc = "start"
    /\ crcBytes' = TextEncode(crcData)
    /\ crcAcc' = CrcInit
    /\ crcI' = 0
    /\ crcPc' = "outer"
    /\ UNCHANGED <<crcData, crcJ, crcOut, genVars, parseVars, appVars>>

\* for (i ...) { crc ^= bytes[i] << 8; j = 0 ...
CrcOuter ==
    /\ crcPc = "outer"
    /\ IF crcI < Len(crcBytes)
       THEN /\ crcAcc' = CrcXorByte(crcAcc, crcBytes[crcI + 1])
            /\ crcJ' = 0
            /\ crcPc' = "inner"
       ELSE /\ crcPc' = "return"
            /\ UNCHANGED <<crcAcc, crcJ>>
    /\ UNCHANGED <<crcData, crcBytes, crcI, crcOut, genVars, parseVars, appVars>>

\* for (j ...) { shift; crc &= 0xFFFF }   and, after the last round, i++
CrcInner ==
    /\ crcPc = "inner"
    /\ IF crcJ < 8
       THEN /\ crcAcc' = CrcShift(crcAcc)
            /\ crcJ' = crcJ + 1
            /\ UNCHANGED <<crcI, crcPc>>
       ELSE /\ crcI' = crcI + 1
            /\ crcPc' = "outer"
            /\ UNCHANGED <<crcAcc, crcJ>>
    /\ UNCHANGED <<crcData, crcBytes, crcOut, genVars, parseVars, appVars>>

CrcReturn ==
    /\ crcPc = "return"
    /\ crcOut' = CrcToString(crcAcc)
    /\ crcPc' = "done"
    /\ UNCHANGED <<crcData, crcBytes, crcI, crcJ, crcAcc, genVars, parseVars, appVars>>

InitCrc ==
    /\ formData = InitialFormData
    /\ qrString = <<>>
    /\ tlvs = <<>>
    /\ inputQrString = <<>>
    /\ pc = "mount"
    /\ qrStringToParse = <<>>
    /\ parsedData = <<>>
    /\ index = 0
    /\ subParsed = Null
    /\ subIndex = 0
    /\ subTlvs = <<>>
    /\ crcPc = "start"
    /\ crcData \in CrcInputs
    /\ crcBytes = <<>>
    /\ crcI = 0
    /\ crcJ = 0
    /\ crcAcc = 0
    /\ crcOut = <<>>
    /\ AppOff

NextCrc ==
    \/ CrcStart
    \/ CrcOuter
    \/ CrcInner
    \/ CrcReturn

SpecCrc == InitCrc /\ [][NextCrc]_vars

-----------------------------------------------------------------------------
(***************************************************************************)
(* Reference notions the properties are stated with                        *)
(***************************************************************************)

\* v with the bit of weight p inverted.
FlipBit(v, p) == IF (v \div p) % 2 = 1 THEN v - p ELSE v + p

\* One message bit entering the 16-bit register of CRC-16/CCITT-FALSE: the
\* register shifts left, and x^12 + x^5 + 1 is added when the bit shifted
\* out differs from the message bit.
RefCrcBit(reg, bit) ==
    LET shifted == (reg * 2) % 65536
    IN  IF reg \div 32768 # bit
        THEN FlipBit(FlipBit(FlipBit(shifted, 4096), 32), 1)
        ELSE shifted

\* The bits of an octet, the most significant first.
RECURSIVE RefCrcOctet(_, _, _)
RefCrcOctet(reg, octet, weight) ==
    IF weight = 0 THEN reg
    ELSE IF reg >= 0
    THEN RefCrcOctet(RefCrcBit(reg, (octet \div weight) % 2), octet, weight \div 2)
    ELSE reg

RECURSIVE RefCrcRange(_, _, _, _)
RefCrcRange(bytes, lo, hi, reg) ==
    IF hi <= lo THEN reg
    ELSE IF hi = lo + 1 THEN RefCrcOctet(reg, bytes[hi], 128)
    ELSE LET mid  == (lo + hi) \div 2
             left == RefCrcRange(bytes, lo, mid, reg)
         IN  IF left >= 0 THEN RefCrcRange(bytes, mid, hi, left) ELSE left

\* CRC-16/CCITT-FALSE of a sequence of octets: register preset to all ones,
\* nothing reflected, nothing added at the end.
RefCrc(bytes) == RefCrcRange(bytes, 0, Len(bytes), 65535)

HexDigit(n) == IF n < 10 THEN 48 + n ELSE 55 + n

\* A 16-bit value as four upper-case hexadecimal digits.
RefHex4(v) ==
    << HexDigit(v \div 4096), HexDigit((v \div 256) % 16),
       HexDigit((v \div 16) % 16), HexDigit(v % 16) >>

\* The node at offset pos of s, read strictly: a two-character tag, two
\* decimal digits, and as many characters as they say.
StrictNode(s, pos) ==
    IF ~(IsDigit(s[pos + 3]) /\ IsDigit(s[pos + 4]))
    THEN [err |-> "MalformedLength"]
    ELSE LET n == (s[pos + 3] - 48) * 10 + (s[pos + 4] - 48)
         IN  IF pos + 4 + n > Len(s)
             THEN [err |-> "TruncatedValue"]
             ELSE [ err   |-> "none",
                    tag   |-> SubSeq(s, pos + 1, pos + 2),
                    value |-> SubSeq(s, pos + 5, pos + 4 + n),
                    next  |-> pos + 4 + n ]

\* The nodes of s from offset pos on, read strictly up to a rest of fewer
\* than four characters; the first error ends the reading.
RECURSIVE StrictNodes(_, _)
StrictNodes(s, pos) ==
    IF Len(s) - pos < 4 THEN [err |-> "none", nodes |-> <<>>]
    ELSE LET nd == StrictNode(s, pos)
         IN  IF nd.err # "none" THEN [err |-> nd.err, nodes |-> <<>>]
             ELSE LET rest == StrictNodes(s, nd.next)
                  IN  [ err   |-> rest.err,
                        nodes |-> <<[tag |-> nd.tag, value |-> nd.value]>> \o rest.nodes ]

\* How a strict decode of s ends: the first error met at top level or
\* inside the value of a tag 44 or 64, or "none".
RECURSIVE StrictOutcomeFrom(_, _)
StrictOutcomeFrom(s, pos) ==
    IF Len(s) - pos < 4 THEN "none"
    ELSE LET nd == StrictNode(s, pos)
         IN  IF nd.err # "none" THEN nd.err
             ELSE LET inner == IF nd.tag \in CompositeTags
                               THEN StrictNodes(nd.value, 0).err
                               ELSE "none"
                  IN  IF inner # "none" THEN inner
                      ELSE StrictOutcomeFrom(s, nd.next)

StrictOutcome(s) == StrictOutcomeFrom(s, 0)

\* The fields the round trip speaks of have at most 99 characters.
FieldsFit(r) ==
    /\ \A f \in { "payloadFormatIndicator", "pointOfInitiationMethod", "merchantId",
                  "merchantCategoryCode", "transactionCurrency", "countryCode",
                  "merchantName", "merchantCity" } : Len(r[f]) <= 99
    /\ \A k \in AdKeys : Len(r.additionalData[k]) <= 99

\* Every value the encoder wraps for the record fd.
WrappedValues(fd) ==
    { fd.payloadFormatIndicator, fd.pointOfInitiationMethod, fd.merchantId,
      fd.merchantCategoryCode, fd.transactionCurrency, fd.countryCode,
      fd.merchantName, fd.merchantCity,
      generateMerchantAccountInfo(fd.merchantId),
      generateAdditionalDataTLV(fd.additionalData) }
        \cup {fd.additionalData[k] : k \in AdKeys}

TagsOf(nodes) == [i \in 1..Len(nodes) |-> nodes[i].tag]

-----------------------------------------------------------------------------
(***************************************************************************)
(* Properties                                                              *)
(***************************************************************************)

\* C1: when the string being decoded is the encoding of a record whose
\* fields all have at most 99 characters, the record the decode leaves
\* behind encodes to the very same string.
C1_RoundTrip ==
    [][ (pc = "update" /\ \E r \in SampleRecords :
                              /\ FieldsFit(r)
                              /\ qrStringToParse = generateQrString(r).qrString)
            => qrString' = qrStringToParse ]_vars

\* C2: a record in which some wrapped value has more than 99 characters is
\* not encoded: no string and no node list is produced for it.
C2_LengthOverflow ==
    (pc = "idle" /\ \E v \in WrappedValues(formData) : Len(v) > 99)
        => (qrString = <<>> /\ tlvs = <<>>)

\* C3: the emitted string reads strictly, node after node with two-digit
\* length headers, as the tags 00 01 44 52 53 58 59 60 64 63 carrying the
\* values of the record, and the values of 44 and 64 read the same way as
\* their sub-nodes.
C3_LengthInvariant ==
    pc = "idle" =>
        LET top == StrictNodes(qrString, 0)
        IN  /\ top.err = "none"
            /\ TagsOf(top.nodes) = <<Tag00, Tag01, Tag44, Tag52, Tag53, Tag58,
                                     Tag59, Tag60, Tag64, Tag63>>
            /\ top.nodes[1].value = formData.payloadFormatIndicator
            /\ top.nodes[2].value = formData.pointOfInitiationMethod
            /\ top.nodes[4].value = formData.merchantCategoryCode
            /\ top.nodes[5].value = formData.transactionCurrency
            /\ top.nodes[6].value = formData.countryCode
            /\ top.nodes[7].value = formData.merchantName
            /\ top.nodes[8].value = formData.merchantCity
            /\ Len(top.nodes[10].value) = 4
            /\ LET account == StrictNodes(top.nodes[3].value, 0)
               IN  /\ account.err = "none"
                   /\ TagsOf(account.nodes) = <<Tag00, Tag01>>
                   /\ account.nodes[1].value = formData.merchantId
            /\ LET additional == StrictNodes(top.nodes[9].value, 0)
               IN  /\ additional.err = "none"
                   /\ TagsOf(additional.nodes) = <<Tag00, Tag01, Tag02>>
                   /\ \A k \in AdKeys :
                         \E i \in 1..3 : /\ additional.nodes[i].tag = AdTag[k]
                                         /\ additional.nodes[i].value = formData.additionalData[k]

\* C4: the value of tag 44 is the merchant id wrapped as sub-tag 00 followed
\* by the separate secondary identifier wrapped as sub-tag 01; for the
\* merchant id com.konai.konacard it is
\* 0018com.konai.konacard0115410790020044601.
C4_MerchantAccountInfo ==
    pc = "idle" =>
        /\ tlvs[3].tag = Tag44
        /\ tlvs[3].value = createTLV(Tag00, formData.merchantId) \o createTLV(Tag01, FixedValue)
        /\ formData.merchantId = S("com.konai.konacard")
              => tlvs[3].value = S("0018com.konai.konacard0115410790020044601")

\* C5: a decode that meets a length header that is not two decimal digits
\* gives no record: the record held, and the string made from it, stay as
\* they were.
C5_MalformedLength ==
    [][ (pc = "update" /\ StrictOutcome(qrStringToParse) = "MalformedLength")
            => (formData' = formData /\ qrString' = qrString) ]_vars

\* C6: a decode that meets a declared length greater than what remains
\* after the header fails: the record held is not updated, and the input is
\* not cleared as it is after a successful parse.
C6_TruncatedValue ==
    [][ (pc = "update" /\ StrictOutcome(qrStringToParse) = "TruncatedValue")
            => (formData' = formData /\ inputQrString' = inputQrString) ]_vars

\* C7: every decode that has started leaves its loops: the top-level loop
\* and the loops over the values of tags 44 and 64 come to their end.
C7_DecodeTerminates == (pc \in {"loop", "sub"}) ~> (pc = "update")

\* C8: what a decode leaves in a field whose tag did not occur in the string
\* is that field's default (the empty string of a fresh record, or the
\* value of the initial record), whatever record was held before.
C8_FreshRecord ==
    [][ pc = "update" =>
          \A f \in DOMAIN formData \ DOMAIN parsedData :
              formData'[f] \in {<<>>, InitialFormData[f]} ]_vars

\* C9: the four characters calculateCRC16 returns are the CRC-16/CCITT-FALSE
\* of the UTF-8 octets of its argument in upper-case hexadecimal; FFFF for
\* the empty string, and 29B1 for 123456789.
C9_ChecksumIsCcittFalse ==
    crcPc = "done" =>
        /\ crcOut = RefHex4(RefCrc(TextEncode(crcData)))
        /\ crcData = <<>> => crcOut = S("FFFF")
        /\ crcData = S("123456789") => crcOut = S("29B1")

C9_Witness ==
    /\ crcPc = "done"
    /\ Len(crcData) = MaxCrcLen
    /\ Len(crcBytes) > Len(crcData)
    /\ crcOut # S("FFFF")

\* C10: the emitted string ends with 6304 and four characters that are the
\* checksum of everything before them, 6304 included.
C10_ChecksumTrailer ==
    pc = "idle" =>
        LET n == Len(qrString)
        IN  /\ n >= 8
            /\ SubSeq(qrString, 1, n - 8) = QrWithoutCrc(formData)
            /\ SubSeq(qrString, n - 7, n - 4) = S("6304")
            /\ SubSeq(qrString, n - 3, n)
                  = RefHex4(RefCrc(TextEncode(SubSeq(qrString, 1, n - 4))))

C10_Witness ==
    /\ pc = "idle"
    /\ formData.merchantName = Rep(98, 99)
    /\ Len(qrString) > 99

\* The passes of the parse loops are taken as long as they can be: a
\* running handler is not suspended.
FairSpec ==
    /\ Spec
    /\ WF_vars(ParseLoop)
    /\ WF_vars(ParseSubLoop)

-----------------------------------------------------------------------------
(***************************************************************************)
(* Properties of the emitted order                                         *)
(***************************************************************************)

\* n in decimal, with at least two digits.
RefDecimal(n) ==
    IF n < 100 THEN <<48 + (n \div 10), 48 + (n % 10)>>
    ELSE IF n < 1000
    THEN <<48 + (n \div 100), 48 + ((n \div 10) % 10), 48 + (n % 10)>>
    ELSE <<48 + (n \div 1000), 48 + ((n \div 100) % 10),
           48 + ((n \div 10) % 10), 48 + (n % 10)>>

\* A node as it is written: tag, length of the value, value.
RefNode(tag, value) == tag \o RefDecimal(Len(value)) \o value

\* s is one node with the given tag, whatever its value.
IsNodeWithTag(s, tag) ==
    \E h \in {2, 3, 4} :
        /\ Len(s) >= 2 + h
        /\ SubSeq(s, 1, 2) = tag
        /\ SubSeq(s, 3, 2 + h) = RefDecimal(Len(s) - 2 - h)

\* C11: the emitted string is the nodes 00, 01, 44, 52, 53, 58, 59, 60, 64,
\* 63 in this order, once each, the value of 64 being its sub-nodes 00, 01,
\* 02 in this order, whatever the values of the fields are.
C11_TagOrder ==
    pc = "idle" =>
        LET before == RefNode(Tag00, formData.payloadFormatIndicator)
                          \o RefNode(Tag01, formData.pointOfInitiationMethod)
            after  == RefNode(Tag52, formData.merchantCategoryCode)
                          \o RefNode(Tag53, formData.transactionCurrency)
                          \o RefNode(Tag58, formData.countryCode)
                          \o RefNode(Tag59, formData.merchantName)
                          \o RefNode(Tag60, formData.merchantCity)
                          \o RefNode(Tag64, RefNode(Tag00, formData.additionalData["00"])
                                                \o RefNode(Tag01, formData.additionalData["01"])
                                                \o RefNode(Tag02, formData.additionalData["02"]))
            n      == Len(qrString)
            from44 == Len(before) + 1
            to44   == n - 8 - Len(after)
        IN  /\ to44 >= from44
            /\ SubSeq(qrString, 1, Len(before)) = before
            /\ IsNodeWithTag(SubSeq(qrString, from44, to44), Tag44)
            /\ SubSeq(qrString, to44 + 1, n - 8) = after
            /\ IsNodeWithTag(SubSeq(qrString, n - 7, n), Tag63)

C11_Witness ==
    /\ pc = "idle"
    /\ formData.merchantName = <<>>
    /\ formData.additionalData["01"] = <<>>
    /\ formData.merchantId = <<>>
    /\ Len(qrString) > 8

-----------------------------------------------------------------------------
(***************************************************************************)
(* The decoder alone, over many strings typed into the parser's input      *)
(***************************************************************************)

\* What the mounted component shows for the initial record.
InitialOutput == generateQrString(InitialFormData)

EncodedInitial == InitialOutput.qrString

\* Decodable strings that the other inputs are made from.
DecodeBases == {EncodedInitial, S("5902AB"), S("5802KR5902AB6304ABCD")}

\* A well-formed node with a tag the decoder does not know.
UnknownNode == S("9903xyz")

\* The offsets in s at which a top-level node starts or the last one ends.
BoundaryOffsets(s) ==
    LET nodes == StrictNodes(s, 0).nodes
        off[i \in 0..Len(nodes)] ==
            IF i = 0 THEN 0 ELSE off[i - 1] + 4 + Len(nodes[i].value)
    IN  {off[i] : i \in 0..Len(nodes)}

InsertedInputs ==
    UNION { { SubSeq(b, 1, o) \o UnknownNode \o SubSeq(b, o + 1, Len(b)) :
                o \in BoundaryOffsets(b) } : b \in DecodeBases }

\* The same tag more than once, at top level and inside a composite value.
DuplicateInputs ==
    { S("5902AB5902CD"), S("5902AB5802KR5901Z"), S("64120002KO0002EN"),
      S("64060002KO64060102AB"), S("44100001a0001b") }

\* Strings whose checksum field does not hold the checksum.
ChecksumInputs ==
    { SubSeq(EncodedInitial, 1, Len(EncodedInitial) - 4) \o S("ZZZZ"),
      SubSeq(EncodedInitial, 1, Len(EncodedInitial) - 4) \o S("0000"),
      S("5902AB6304abcd") }

\* Complete nodes followed by fewer than four characters.
FragmentInputs ==
    { S("5902AB5"), S("5902AB59"), S("5902AB590"), S("590"),
      EncodedInitial \o S("63") }

\* Composite values with and without the sub-tags the decoder reads.
CompositeInputs ==
    { S("44070103abc"), S("44060002id"), S("64050101x"), S("4400"),
      S("64100002EN0202ab") }

DecodeInputs ==
    DecodeBases \cup InsertedInputs \cup DuplicateInputs \cup ChecksumInputs
        \cup FragmentInputs \cup CompositeInputs

\* The mounted component with the initial record, and a string typed into
\* the parser's input.
InitDecode ==
    /\ formData = InitialFormData
    /\ qrString = InitialOutput.qrString
    /\ tlvs = InitialOutput.tlvs
    /\ inputQrString \in DecodeInputs
    /\ pc = "idle"
    /\ qrStringToParse = <<>>
    /\ parsedData = <<>>
    /\ index = 0
    /\ subParsed = Null
    /\ subIndex = 0
    /\ subTlvs = <<>>
    /\ CrcOff
    /\ AppOff

NextDecode ==
    \/ ParseClick
    \/ ParseLoop
    \/ ParseSubLoop
    \/ ParseUpdate

SpecDecode == InitDecode /\ [][NextDecode]_vars

-----------------------------------------------------------------------------
(***************************************************************************)
(* Properties of the decoder                                               *)
(***************************************************************************)

HasTag(nodes, tag) == \E i \in 1..Len(nodes) : nodes[i].tag = tag

\* The value of the last node with the given tag.
LastValue(nodes, tag) ==
    nodes[CHOOSE i \in 1..Len(nodes) :
              /\ nodes[i].tag = tag
              /\ \A j \in (i + 1)..Len(nodes) : nodes[j].tag # tag].value

LastOrEmpty(nodes, tag) == IF HasTag(nodes, tag) THEN LastValue(nodes, tag) ELSE <<>>

\* The tag behind each field that holds the value of a top-level node.
RefFieldTag ==
    [ payloadFormatIndicator  |-> Tag00,
      pointOfInitiationMethod |-> Tag01,
      merchantCategoryCode    |-> Tag52,
      transactionCurrency     |-> Tag53,
      countryCode             |-> Tag58,
      merchantName            |-> Tag59,
      merchantCity            |-> Tag60,
      crc                     |-> Tag63 ]

KnownTags == {RefFieldTag[f] : f \in DOMAIN RefFieldTag} \cup {Tag44, Tag64}

\* What a strict reading of s gives for the fields whose tags occur in s:
\* each field from the last node with its tag, the merchant id and the
\* additional data from the sub-nodes of the last node 44 and 64.
RefParsed(s) ==
    LET top     == StrictNodes(s, 0).nodes
        simple  == {f \in DOMAIN RefFieldTag : HasTag(top, RefFieldTag[f])}
        account == IF HasTag(top, Tag44) THEN {"merchantAccountInfo", "merchantId"} ELSE {}
    IN  [f \in simple \cup account \cup {"additionalData"} |->
            IF f \in simple THEN LastValue(top, RefFieldTag[f])
            ELSE IF f = "merchantAccountInfo" THEN LastValue(top, Tag44)
            ELSE IF f = "merchantId"
            THEN LastOrEmpty(StrictNodes(LastValue(top, Tag44), 0).nodes, Tag00)
            ELSE IF HasTag(top, Tag64)
            THEN [k \in AdKeys |->
                     LastOrEmpty(StrictNodes(LastValue(top, Tag64), 0).nodes, AdTag[k])]
            ELSE EmptyAdditionalData]

\* The nodes from the i-th on written one after the other, those with a tag
\* outside keep left out.
RECURSIVE WriteNodes(_, _, _)
WriteNodes(nodes, i, keep) ==
    IF i > Len(nodes) THEN <<>>
    ELSE (IF nodes[i].tag \in keep THEN RefNode(nodes[i].tag, nodes[i].value) ELSE <<>>)
             \o WriteNodes(nodes, i + 1, keep)

AllTagsOf(nodes) == {nodes[i].tag : i \in 1..Len(nodes)}

\* s reads strictly, top level and composite values, from its first to its
\* last character.
WellFormed(s) ==
    LET top == StrictNodes(s, 0).nodes
    IN  /\ StrictOutcome(s) = "none"
        /\ WriteNodes(top, 1, AllTagsOf(top)) = s

\* s without its top-level nodes of unknown tags.
KnownOnly(s) == WriteNodes(StrictNodes(s, 0).nodes, 1, KnownTags)

\* C12: the decode of a well-formed string gives what the string without
\* its nodes of unknown tags gives: such a node, wherever it stands between
\* the others, changes no field.
C12_UnknownTagTolerance ==
    (pc = "update" /\ WellFormed(qrStringToParse))
        => parsedData = RefParsed(KnownOnly(qrStringToParse))

\* An unknown node stood before the merchant name, which was read after it.
C12_Witness ==
    /\ pc = "update"
    /\ WellFormed(qrStringToParse)
    /\ KnownOnly(qrStringToParse) = S("5802KR5902AB6304ABCD")
    /\ SubSeq(qrStringToParse, 7, 13) = UnknownNode
    /\ parsedData.merchantName = S("AB")


\* How many of the nodes have the given tag.
Count(nodes, tag) == Cardinality({i \in 1..Len(nodes) : nodes[i].tag = tag})

\* C13: a tag that occurs more than once, at top level or among the
\* sub-nodes of one composite value, leaves the value of its last
\* occurrence in the field.
C13_LastWriteWins ==
    (pc = "update" /\ WellFormed(qrStringToParse)) =>
        LET top == StrictNodes(qrStringToParse, 0).nodes
        IN  /\ \A f \in DOMAIN RefFieldTag :
                  Count(top, RefFieldTag[f]) > 1
                      => parsedData[f] = LastValue(top, RefFieldTag[f])
            /\ HasTag(top, Tag44) =>
                  LET sub == StrictNodes(LastValue(top, Tag44), 0).nodes
                  IN  /\ Count(top, Tag44) > 1
                            => parsedData.merchantAccountInfo = LastValue(top, Tag44)
                      /\ Count(sub, Tag00) > 1
                            => parsedData.merchantId = LastValue(sub, Tag00)
            /\ HasTag(top, Tag64) =>
                  LET sub == StrictNodes(LastValue(top, Tag64), 0).nodes
                  IN  \A k \in AdKeys :
                          /\ Count(top, Tag64) > 1
                                => parsedData.additionalData[k] = LastOrEmpty(sub, AdTag[k])
                          /\ Count(sub, AdTag[k]) > 1
                                => parsedData.additionalData[k] = LastValue(sub, AdTag[k])

\* The sub-tag 00 stood twice inside tag 64 and the second value was kept.
C13_Witness ==
    /\ pc = "update"
    /\ qrStringToParse = S("64120002KO0002EN")
    /\ parsedData.additionalData["00"] = S("EN")


\* s ends with a checksum field of four characters.
EndsWithChecksumField(s) ==
    LET top == StrictNodes(s, 0).nodes
    IN  /\ Len(top) >= 1
        /\ top[Len(top)].tag = Tag63
        /\ Len(top[Len(top)].value) = 4

\* s with the four characters of its checksum field replaced by the
\* checksum of what stands before them.
WithRightChecksum(s) ==
    LET covered == SubSeq(s, 1, Len(s) - 4)
    IN  covered \o RefHex4(RefCrc(TextEncode(covered)))

\* C14: whatever four characters the checksum field of a well-formed string
\* holds, the parse goes through, the record takes these four characters as
\* they are, and every other field read is what the same string with the
\* right checksum gives.
C14_ChecksumNotVerified ==
    [][ (/\ pc = "update"
         /\ WellFormed(qrStringToParse)
         /\ EndsWithChecksumField(qrStringToParse))
            => LET n       == Len(qrStringToParse)
                   matched == RefParsed(WithRightChecksum(qrStringToParse))
               IN  /\ pc' = "idle"
                   /\ inputQrString' = <<>>
                   /\ formData'.crc = SubSeq(qrStringToParse, n - 3, n)
                   /\ \A f \in DOMAIN matched \ {"crc"} : formData'[f] = matched[f] ]_vars

\* A string whose checksum field holds ZZZZ has been read to its end.
C14_Witness ==
    /\ pc = "update"
    /\ WellFormed(qrStringToParse)
    /\ EndsWithChecksumField(qrStringToParse)
    /\ WithRightChecksum(qrStringToParse) = EncodedInitial
    /\ parsedData.crc = S("ZZZZ")


\* C15: when a well-formed string is followed by one, two or three more
\* characters, the parse goes through as for the well-formed string alone:
\* what was read is what the complete nodes give, and the record takes it.
C15_TrailingFragment ==
    [][ pc = "update" =>
          \A n \in 1..3 :
              (Len(qrStringToParse) >= n
                 /\ WellFormed(SubSeq(qrStringToParse, 1, Len(qrStringToParse) - n)))
                  => LET complete == RefParsed(SubSeq(qrStringToParse, 1,
                                                      Len(qrStringToParse) - n))
                     IN  /\ parsedData = complete
                         /\ pc' = "idle"
                         /\ inputQrString' = <<>>
                         /\ \A f \in DOMAIN complete : formData'[f] = complete[f] ]_vars

\* The node 59 was read and the three characters after it were left.
C15_Witness ==
    /\ pc = "update"
    /\ qrStringToParse = S("5902AB590")
    /\ index = 6
    /\ parsedData.merchantName = S("AB")


\* C16: after a well-formed string, the merchant id is the value of sub-tag
\* 00 of tag 44 and the additional data are the values of the sub-tags 00,
\* 01, 02 of tag 64, each empty when its sub-tag is absent; and while a
\* composite value is being read, what has been collected is what the
\* strict reading of a top-level string gives for the part read so far.
C16_CompositeDispatch ==
    /\ (pc = "update" /\ WellFormed(qrStringToParse)) =>
          LET top == StrictNodes(qrStringToParse, 0).nodes
          IN  /\ HasTag(top, Tag44) =>
                    /\ parsedData.merchantAccountInfo = LastValue(top, Tag44)
                    /\ parsedData.merchantId
                          = LastOrEmpty(StrictNodes(LastValue(top, Tag44), 0).nodes, Tag00)
              /\ HasTag(top, Tag64) =>
                    \A k \in AdKeys :
                        parsedData.additionalData[k]
                          = LastOrEmpty(StrictNodes(LastValue(top, Tag64), 0).nodes, AdTag[k])
    /\ (pc = "sub" /\ WellFormed(qrStringToParse)) =>
          LET read == StrictNodes(SubSeq(subParsed.value, 1, subIndex), 0).nodes
          IN  /\ subParsed.tag \in CompositeTags
              /\ DOMAIN subTlvs = AllTagsOf(read)
              /\ \A t \in DOMAIN subTlvs : subTlvs[t] = LastValue(read, t)

\* Tag 44 held the sub-tag 00 with the value "id", and no sub-tag 01.
C16_Witness ==
    /\ pc = "update"
    /\ qrStringToParse = S("44060002id")
    /\ parsedData.merchantAccountInfo = S("0002id")
    /\ parsedData.merchantId = S("id")


\* The record of the scenario: format indicator 01, initiation method 11,
\* merchant id com.konai.konacard.
IsScenarioRecord(fd) ==
    /\ fd.payloadFormatIndicator = S("01")
    /\ fd.pointOfInitiationMethod = S("11")
    /\ fd.merchantId = S("com.konai.konacard")

\* C17: the string emitted for the record of the scenario starts with the
\* node 00 of value 01, the node 01 of value 11, each with its length 02,
\* and the tag 44: 00020101021144.
C17_ScenarioPrefix ==
    (pc = "idle" /\ IsScenarioRecord(formData))
        => SubSeq(qrString, 1, 14) = S("00020101021144")

\* C17 as it was stated: the string starts with 000201011144.
C17_ScenarioPrefixAsStated ==
    (pc = "idle" /\ IsScenarioRecord(formData))
        => SubSeq(qrString, 1, 12) = S("000201011144")

C17_Witness ==
    /\ pc = "idle"
    /\ IsScenarioRecord(formData)
    /\ Len(qrString) >= 14
    /\ SubSeq(qrString, 7, 12) = S("010211")


\* The record with the two fields the encoder does not read blanked: the
\* stored checksum and the stored merchant account info.
EncodedFieldsOnly(fd) == [fd EXCEPT !.crc = <<>>, !.merchantAccountInfo = <<>>]

\* C18: whatever edits, resets and parses came before, the string shown is
\* the encoding of the present values of the encoded fields and of nothing
\* else, so equal records always show equal strings.
C18_Determinism ==
    pc = "idle" => qrString = generateQrString(EncodedFieldsOnly(formData)).qrString

\* After a parse of its own encoding the record differs from the initial
\* one in the stored checksum only, and the string is the same again.
C18_Witness ==
    /\ pc = "idle"
    /\ formData # InitialFormData
    /\ EncodedFieldsOnly(formData) = EncodedFieldsOnly(InitialFormData)
    /\ qrString = EncodedInitial


\* What is asked of a node read at offset of data.
GoodNode(parsed, data, offset) ==
    /\ parsed.tag = SubSeq(data, offset + 1, offset + 2)
    /\ IsDigit(data[offset + 3])
    /\ IsDigit(data[offset + 4])
    /\ parsed.length = (data[offset + 3] - 48) * 10 + (data[offset + 4] - 48)
    /\ parsed.length >= 0
    /\ parsed.length <= 99
    /\ parsed.value = SubSeq(data, offset + 5, offset + 4 + parsed.length)
    /\ parsed.nextIndex = offset + 4 + parsed.length
    /\ parsed.nextIndex > offset
    /\ parsed.nextIndex <= Len(data)

\* C19: every node parseTLV returns, at top level or inside a composite
\* value, has the two characters at the offset as its tag, a length of two
\* decimal digits, the characters after the header as its value, and a next
\* offset beyond the offset and within the data.
C19_DecodeOneResult ==
    /\ pc = "loop" =>
          LET parsed == parseTLV(qrStringToParse, index)
          IN  ~parsed.null => GoodNode(parsed, qrStringToParse, index)
    /\ pc = "sub" =>
          LET parsed == parseTLV(subParsed.value, subIndex)
          IN  ~parsed.null => GoodNode(parsed, subParsed.value, subIndex)


\* The digits and upper-case letters of hexadecimal notation.
HexChars == {48 + d : d \in 0..9} \cup {65 + d : d \in 0..5}

\* C20: the accumulator of calculateCRC16 is within 0..0xFFFF after the
\* octet is added and after each of the eight shifts, and the result is
\* four characters among 0-9 and A-F.
C20_AccumulatorRange ==
    /\ crcPc \in {"outer", "inner", "return", "done"} =>
          (crcAcc >= 0 /\ crcAcc <= 65535)
    /\ crcPc = "done" =>
          /\ Len(crcOut) = 4
          /\ \A i \in 1..Len(crcOut) : crcOut[i] \in HexChars

\* A result that needed padding: below 0x1000, with a letter among its
\* digits.
C20_Witness ==
    /\ crcPc = "done"
    /\ crcAcc < 4096
    /\ Len(crcOut) = 4
    /\ crcOut[1] = 48
    /\ \E i \in 1..Len(crcOut) : crcOut[i] >= 65


-----------------------------------------------------------------------------
(***************************************************************************)
(* Characters and encoded bytes                                            *)
(***************************************************************************)

\* No code unit of s is half of a surrogate pair.
NoSurrogates(s) == \A i \in 1..Len(s) : s[i] < 55296 \/ s[i] > 57343

\* Every code unit of s takes more than one byte in UTF-8.
MultiByteOnly(s) == NoSurrogates(s) /\ \A i \in 1..Len(s) : s[i] >= 128

\* The number of UTF-8 bytes of a string without surrogates: one per code
\* unit, one more from U+0080 on, one more from U+0800 on.
RefByteCount(s) ==
    Len(s) + Cardinality({i \in 1..Len(s) : s[i] >= 128})
           + Cardinality({i \in 1..Len(s) : s[i] >= 2048})

\* C21: a description of n characters that each take more than one byte is
\* written with the header n (the sub-node 01 of tag 64 is "01", n in
\* decimal, the description), while the checksum at the end is taken over
\* the UTF-8 bytes of the text, of which the description gives more than n.
C21_LengthCountsCharacters ==
    (/\ pc = "idle"
     /\ formData.additionalData["01"] # <<>>
     /\ MultiByteOnly(formData.additionalData["01"])
     /\ NoSurrogates(qrString))
        => LET v    == formData.additionalData["01"]
               n    == Len(qrString)
               tail == Tag01 \o RefDecimal(Len(v)) \o v
                           \o RefNode(Tag02, formData.additionalData["02"])
               text == SubSeq(qrString, 1, n - 4)
               fed  == TextEncode(text)
           IN  /\ n >= 8 + Len(tail)
               /\ SubSeq(qrString, n - 7 - Len(tail), n - 8) = tail
               /\ RefByteCount(v) > Len(v)
               /\ Len(fed) = RefByteCount(text)
               /\ Len(fed) - Len(text) >= RefByteCount(v) - Len(v)
               /\ SubSeq(qrString, n - 3, n) = RefHex4(RefCrc(fed))

C21_Witness ==
    /\ pc = "idle"
    /\ formData.additionalData["01"] = <<53580, 49828, 53944>>
    /\ formData.merchantId = S("com.konai.konacard")
    /\ Len(qrString) > 8
    /\ SubSeq(qrString, Len(qrString) - 21, Len(qrString) - 17)
          = S("0103") \o <<53580>>


-----------------------------------------------------------------------------
(***************************************************************************)
(* Properties of the native bridges                                        *)
(***************************************************************************)

\* C22: with no CALLBACK_URL stored, a closeModule call returns true exactly
\* when detectBridgeType() is not NONE, and it posts one message, to the
\* bridge detectBridgeType reports, or none when that is NONE, for every
\* window.
C22_BridgeAgreement ==
    [][ ("CALLBACK_URL" \notin DOMAIN sessionStorage)
            => LET bridge == detectBridgeType(window)
               IN  /\ (closeResult' = "true") <=> (bridge # NONE)
                   /\ IF bridge = NONE
                      THEN posted' = posted
                      ELSE /\ Len(posted') = Len(posted) + 1
                           /\ SubSeq(posted', 1, Len(posted)) = posted
                           /\ posted'[Len(posted')].bridge = bridge ]_vars


\* The value of the kpdata parameter for a payload, as it is written in a
\* URL: {"status":"..."} with the braces, quotes and colon percent-encoded.
RefKpdata(data) ==
    <<37>> \o S("7B") \o <<37>> \o S("22status") \o <<37>> \o S("22") \o <<37>> \o S("3A")
           \o <<37>> \o S("22") \o data.status \o <<37>> \o S("22") \o <<37>> \o S("7D")

\* The parameters of a parsed URL with the given name, and the others.
ParamsNamed(url, name) == SelectSeq(url.searchParams, LAMBDA p : p.name = name)
ParamsOther(url, name) == SelectSeq(url.searchParams, LAMBDA p : p.name # name)

\* The string is an absolute https URL.
RefIsAbsolute(str) == Len(str) > 8 /\ SubSeq(str, 1, 8) = S("https") \o <<58, 47, 47>>

\* What a redirecting closeModule call does: the page is sent to the stored
\* URL with its own parameters and one kpdata parameter holding the payload,
\* the item is removed, true is returned, nothing is posted.
RedirectStep ==
    /\ location' # Null
    /\ LET before == ParseUrl(sessionStorage["CALLBACK_URL"])
           after  == ParseUrl(location'.href)
       IN  /\ after.base = before.base
           /\ ParamsOther(after, S("kpdata")) = ParamsOther(before, S("kpdata"))
           /\ ParamsNamed(after, S("kpdata"))
                 = <<[name |-> S("kpdata"), value |-> RefKpdata(closeData'.data)]>>
    /\ "CALLBACK_URL" \notin DOMAIN sessionStorage'
    /\ closeResult' = "true"
    /\ posted' = posted

\* What a call on the native path does: no redirect, and the message is
\* posted or the call returns false.
NativeStep ==
    /\ location' = location
    /\ sessionStorage' = sessionStorage
    /\ \/ closeResult' = "false" /\ posted' = posted
       \/ closeResult' = "true" /\ Len(posted') = Len(posted) + 1

-----------------------------------------------------------------------------
(***************************************************************************)
(* Properties of NativeBarcodeScanner                                      *)
(***************************************************************************)

\* stopScanning has run since the last startScanning call: scanning has been
\* started, isScanningRef is false again, and not by the catch block of
\* startScanning, which leaves its error text.
StoppedSinceStart == sessions # <<>> /\ ~isScanningRef /\ error = ""

\* C23: once stopScanning has run, and until startScanning is invoked
\* again, no step sets a scan result or adds an entry to the message
\* history, whatever detect() call is still in flight.
C23_NoResultAfterStop ==
    [][ (StoppedSinceStart /\ ~isScanningRef')
            => /\ scanResult' = Null \/ scanResult' = scanResult
               /\ messageHistory' = messageHistory ]_vars


\* C26: within one scanning session the frames kept in processedFrames
\* (newest first) carry numbers that go up by one from each saved frame to
\* the next, so they are pairwise distinct, and there are never more than
\* 10 of them.
C26_FrameNumbers ==
    Len(sessions) <= 1 =>
        /\ Len(processedFrames) <= 10
        /\ \A i \in 1..(Len(processedFrames) - 1) :
              processedFrames[i].frameNumber = processedFrames[i + 1].frameNumber + 1
        /\ \A i, j \in 1..Len(processedFrames) :
              i # j => processedFrames[i].frameNumber # processedFrames[j].frameNumber

\* C27: the isScanning state always equals isScanningRef, and while scanning
\* is off no stream is held: streamRef is null and the video has no source.
C27_NoStreamWhenOff ==
    /\ isScanning = isScanningRef
    /\ (~isScanning /\ ~isScanningRef) => (streamRef = 0 /\ srcObject = 0)


-----------------------------------------------------------------------------
(***************************************************************************)
(* Properties of the message history                                       *)
(***************************************************************************)

\* The items of a list whose id is not the given one, in their order.
RECURSIVE RefWithout(_, _)
RefWithout(list, id) ==
    IF list = <<>> THEN <<>>
    ELSE IF Head(list).id = id THEN RefWithout(Tail(list), id)
    ELSE <<Head(list)>> \o RefWithout(Tail(list), id)

\* No item is older than one listed after it.
NewestFirst(list) ==
    \A i, j \in 1..Len(list) : i < j => list[i].timestamp >= list[j].timestamp

\* C30: addMessageToHistory puts the new item in front of the items there
\* were, which stay as they were; removeHistoryItem(id) leaves the items
\* with another id, in their order, and changes nothing when no item has the
\* id; clearHistory leaves the empty list; the history is always ordered
\* newest first.
C30_HistoryEffects ==
    /\ [] NewestFirst(messageHistory)
    /\ [][ LET call == historyCall'
           IN  /\ call.op = "addMessageToHistory"
                     => /\ messageHistory' # <<>>
                        /\ Tail(messageHistory') = messageHistory
                        /\ Head(messageHistory') =
                              [id |-> call.args[1], timestamp |-> now, payload |-> call.args[2],
                               success |-> call.args[3], target |-> call.args[4]]
               /\ call.op = "removeHistoryItem"
                     => /\ messageHistory' = RefWithout(messageHistory, call.args[1])
                        /\ (\A i \in 1..Len(messageHistory) :
                                messageHistory[i].id # call.args[1])
                              => messageHistory' = messageHistory
               /\ call.op = "clearHistory" => messageHistory' = <<>>
         ]_<<messageHistory, historyCall>>

C30_Witness ==
    /\ Len(messageHistory) = 2
    /\ messageHistory[1].id = messageHistory[2].id
    /\ messageHistory[1].timestamp > messageHistory[2].timestamp
    /\ historyCall.op = "removeHistoryItem"
    /\ historyCall.args[1] # messageHistory[1].id


-----------------------------------------------------------------------------
(***************************************************************************)
(* Properties of the published TLV structure                               *)
(***************************************************************************)

\* The nodes of the entries of a TLV list, written one after the other.
RECURSIVE RefNodesOf(_)
RefNodesOf(entries) ==
    IF entries = <<>> THEN <<>>
    ELSE RefNode(Head(entries).tag, Head(entries).value) \o RefNodesOf(Tail(entries))

\* C24: the structure published with the encoded string matches it: its
\* top-level entries, written as nodes in their order, give the string,
\* each entry's length is the length of its value, and the value of each
\* composite entry (44 and 64) is its listed sub-tags written as nodes.
C24_TlvsMatchString ==
    pc = "idle" =>
        /\ RefNodesOf(tlvs) = qrString
        /\ \A i \in 1..Len(tlvs) :
              /\ tlvs[i].length = Len(tlvs[i].value)
              /\ tlvs[i].subTags # <<>>
                    => /\ tlvs[i].tag \in {Tag44, Tag64}
                       /\ RefNodesOf(tlvs[i].subTags) = tlvs[i].value
                       /\ \A k \in 1..Len(tlvs[i].subTags) :
                             tlvs[i].subTags[k].length = Len(tlvs[i].subTags[k].value)

-----------------------------------------------------------------------------
(***************************************************************************)
(* Properties of ScannerPage                                               *)
(***************************************************************************)

\* C25: once ScannerPage has its debug information, in a window without the
\* AndroidBridge permission object, the permission check has ended
\* (permissionChecked), permission is refused when the bridge detected is the
\* Android bridge, and it is assumed granted only when the bridge detected is
\* not the Android bridge.
C25_AndroidWithoutPermissionObject ==
    (pagePc = "ready" /\ ~window.AndroidBridge)
        => /\ permissionChecked
           /\ (detectBridgeType(window) = ANDROID) => (permissionGranted = "false")
           /\ (permissionGranted = "true") => (detectBridgeType(window) # ANDROID)

\* C29: scanHistory never holds more than 10 entries and is ordered newest
\* first; its entries are the most recent scans, in their order (the scans
\* are the ones the message history records); a camera scan or a file upload
\* puts its scan in front of the first 9 entries there were, a clear leaves
\* none, and nothing else changes the list.
C29_ScanHistory ==
    /\ [](/\ Len(scanHistory) <= 10
          /\ NewestFirst(scanHistory)
          /\ \A i \in 1..Len(scanHistory) :
                /\ scanHistory[i].text = messageHistory[i].payload.scanResult
                /\ scanHistory[i].source = messageHistory[i].payload.source
                /\ scanHistory[i].timestamp = messageHistory[i].timestamp)
    /\ [][ (scanHistory' # scanHistory)
              => \/ /\ scanHistory' = <<>>
                    /\ messageHistory' = messageHistory
                 \/ /\ Len(messageHistory') = Len(messageHistory) + 1
                    /\ Len(scanHistory') = Min(Len(scanHistory) + 1, 10)
                    /\ Head(scanHistory') = pageScanResult'
                    /\ Head(scanHistory').timestamp = now
                    /\ \A i \in 2..Len(scanHistory') :
                          scanHistory'[i] = scanHistory[i - 1] ]_vars

\* A file upload was recorded in a full list, the oldest scan left it, and
\* the list holds scans of different times.
C29_Witness ==
    /\ Len(scanHistory) = 10
    /\ Len(messageHistory) > ScansBefore + 1
    /\ scanHistory[1].source = "file"
    /\ scanHistory[1].timestamp > scanHistory[10].timestamp
    /\ \E u \in 1..Len(uploads) : uploads[u].stage = "done"

=============================================================================
